---- MODULE Spec2Model ----
(***************************************************************************)
(* MemoryCPP: the bump-pointer pool (MEMORY_POOL), its backing block       *)
(* (MEMORY_BLOCK) and the view type it hands out (MEMORY_SLICE).           *)
(*                                                                         *)
(* size_t and uintptr_t are WordBits wide: every sum, product and mask of  *)
(* the code is taken modulo Word.  The build is either a debug build       *)
(* (assert() live, <cassert> without NDEBUG) or a release build (assert()  *)
(* compiled out); a failed assert terminates the process.                  *)
(***************************************************************************)
EXTENDS Integers, Naturals, FiniteSets, Sequences, TLC

\* ---------------------------------------------------------------- bounds
\* Width of size_t / uintptr_t in the model.
WordBits == 14
\* Largest pool capacity constructed.
MaxCap == 40

Word == 2 ^ WordBits

\* Capacities a pool is constructed with (one is not a multiple of 8).
Capacities == {MaxCap - 28, MaxCap}

\* Addresses malloc returns for the backing block: page aligned, 8-aligned
\* and odd.  The block lies strictly inside the address space and
\* below its last page.
Heads == {4096, 4152, 4161}

\* Request sizes that meet the precondition n > 0: ordinary ones and ones
\* near the top of size_t.
Sizes == {1, 8, 9, 20, MaxCap} \cup {Word - 1, Word - 8, Word - 16}

\* Request sizes used with an explicit alignment.
AlignedSizes == {1, 12, MaxCap - 8, Word - 7}

\* Alignments that meet the precondition (non-zero powers of two).
Alignments == {1, 2, 4, 8, 16, 64, 4096}

\* sizeof(T) of the types requested with Take<T>.
TypeSizes == {1, 4, 8, 12, 48}

\* sizeof(T) and element counts requested with TakeArray<T>.
ElemSizes == {4, 8}
Counts == {0, 1, 3, Word \div 8, (Word \div 4) + 1}

\* ------------------------------------------------------- word arithmetic
RECURSIVE BitAnd(_, _)
BitAnd(x, y) ==
    IF x = 0 \/ y = 0 THEN 0
    ELSE (x % 2) * (y % 2) + 2 * BitAnd(x \div 2, y \div 2)

\* ~x on a size_t.
BitNot(x) == (Word - 1) - x

\* Mathematical rounding up to a multiple of m (no wrap-around).
RoundUp(n, m) == ((n + m - 1) \div m) * m

Max(a, b) == IF a >= b THEN a ELSE b
Min(a, b) == IF a <= b THEN a ELSE b

\* ------------------------------------------------------------ MEMORY_SLICE
\* A slice value: _Head and _SizeInBytes.
Slice(head, size) == [Head |-> head, SizeInBytes |-> size]

NullSlice == Slice(0, 0)

IsNullPtr(s) == s.Head = 0

\* The constructor asserts sizeInBytes > 0: a debug build aborts on a
\* zero-sized slice, the null sentinel MEMORY_SLICE(nullptr, 0) included.
SliceCtorAborts(dbg, size) == dbg /\ size = 0

\* What a call produces: whether the process aborted, the slice returned
\* and the pool afterwards.
Outcome(ab, s, p) == [aborted |-> ab, slice |-> s, pool |-> p]

\* return MEMORY_SLICE(head, size);
ReturnSlice(dbg, head, size, p) ==
    IF SliceCtorAborts(dbg, size)
    THEN Outcome(TRUE, NullSlice, p)
    ELSE Outcome(FALSE, Slice(head, size), p)

\* MEMORY_SLICE::Offset: nullptr (0) when bytes >= _SizeInBytes.
SliceOffset(s, bytes) ==
    IF bytes >= s.SizeInBytes THEN 0 ELSE (s.Head + bytes) % Word

\* MEMORY_SLICE::Subslice
SliceSubslice(dbg, s, offset, size, p) ==
    LET newHead == SliceOffset(s, offset)
    IN  IF newHead = 0 \/ (offset + size) % Word > s.SizeInBytes
        THEN ReturnSlice(dbg, 0, 0, p)
        ELSE ReturnSlice(dbg, newHead, size, p)

\* ------------------------------------------------- MEMORY_SLICE contents
\* The bytes a slice views are a sequence of unsigned char values; byte k of
\* the slice (k counted from 0) is element k + 1.
RECURSIVE BitOr(_, _)
BitOr(x, y) ==
    IF x = 0 THEN y
    ELSE IF y = 0 THEN x
    ELSE Max(x % 2, y % 2) + 2 * BitOr(x \div 2, y \div 2)

RECURSIVE BitXor(_, _)
BitXor(x, y) ==
    IF x = 0 THEN y
    ELSE IF y = 0 THEN x
    ELSE ((x + y) % 2) + 2 * BitXor(x \div 2, y \div 2)

\* Values of unsigned char, and of the unsigned int the masks are built in
\* (the least width the language grants it; the bytes use the low 8 bits).
ByteRange == 2 ^ 8
UIntRange == 2 ^ 16

\* What a call on the contents of a slice produces: whether the process
\* aborted, the boolean returned, the bytes of the slice afterwards, the
\* value handed back through an out parameter, and whether memory outside
\* the slices involved was accessed.
MemOutcome(ab, flag, bytes, out, oob) ==
    [aborted |-> ab, flag |-> flag, bytes |-> bytes, out |-> out, oob |-> oob]

\* An access outside the slices is undefined behaviour: the process may
\* crash, or the call returns with the slice holding any bytes (vals) and the
\* out parameter holding any value of its size.
UndefinedAccess(bytes, outLen, vals) ==
    {MemOutcome(TRUE, FALSE, bytes, << >>, TRUE)}
        \cup {MemOutcome(FALSE, TRUE, b, o, TRUE) :
                  b \in [1..Len(bytes) -> vals], o \in [1..outLen -> vals]}

\* memcmp(x, y, n): negative, zero or positive by the first differing byte.
RECURSIVE MemCmp(_, _, _)
MemCmp(x, y, n) ==
    IF n = 0 THEN 0
    ELSE IF Head(x) < Head(y) THEN -1
    ELSE IF Head(x) > Head(y) THEN 1
    ELSE MemCmp(Tail(x), Tail(y), n - 1)

\* memcpy(dst + dstOffset, src + srcOffset, size) with both ranges inside.
MemCpy(dst, dstOffset, src, srcOffset, size) ==
    [k \in 1..Len(dst) |->
        IF dstOffset < k /\ k <= dstOffset + size
        THEN src[srcOffset + (k - dstOffset)]
        ELSE dst[k]]

\* An Equals that compares the common prefix and skips the size test.
SliceEqualsPrefixOnly(a, b) == MemCmp(a, b, Min(Len(a), Len(b))) = 0

\* MEMORY_SLICE::Equals on two non-null slices with contents a and b.
SliceEquals(a, b) ==
    IF Len(a) # Len(b) THEN FALSE
    ELSE MemCmp(a, b, Len(a)) = 0

\* MEMORY_SLICE::CopyFrom: dst is this slice, src the other one.  The sums
\* are size_t sums; a request whose sum wraps passes both the asserts and the
\* runtime tests and reaches memcpy.
SliceCopyFrom(dbg, dst, src, srcOffset, dstOffset, size, vals) ==
    LET srcEnd == (srcOffset + size) % Word
        dstEnd == (dstOffset + size) % Word
    IN  IF dbg /\ (srcEnd > Len(src) \/ dstEnd > Len(dst))
        THEN {MemOutcome(TRUE, FALSE, dst, << >>, FALSE)}
        ELSE IF srcEnd > Len(src) \/ dstEnd > Len(dst)
        THEN {MemOutcome(FALSE, FALSE, dst, << >>, FALSE)}
        ELSE IF srcOffset + size <= Len(src) /\ dstOffset + size <= Len(dst)
        THEN {MemOutcome(FALSE, TRUE,
                         MemCpy(dst, dstOffset, src, srcOffset, size), << >>, FALSE)}
        ELSE UndefinedAccess(dst, 0, vals)

\* MEMORY_SLICE::Write<T>: value is the object representation of the T.
SliceWrite(dbg, bytes, value, byteOffset, vals) ==
    LET end == (byteOffset + Len(value)) % Word
    IN  IF dbg /\ end > Len(bytes)
        THEN {MemOutcome(TRUE, FALSE, bytes, << >>, FALSE)}
        ELSE IF end > Len(bytes)
        THEN {MemOutcome(FALSE, FALSE, bytes, << >>, FALSE)}
        ELSE IF byteOffset + Len(value) <= Len(bytes)
        THEN {MemOutcome(FALSE, TRUE,
                         MemCpy(bytes, byteOffset, value, 0, Len(value)), << >>, FALSE)}
        ELSE UndefinedAccess(bytes, 0, vals)

\* MEMORY_SLICE::Read<T>: asserts only, no test at run time; flag is unused.
SliceRead(dbg, bytes, sizeofT, byteOffset, vals) ==
    LET end == (byteOffset + sizeofT) % Word
    IN  IF dbg /\ end > Len(bytes)
        THEN {MemOutcome(TRUE, FALSE, bytes, << >>, FALSE)}
        ELSE IF byteOffset + sizeofT <= Len(bytes)
        THEN {MemOutcome(FALSE, TRUE, bytes,
                         [k \in 1..sizeofT |-> bytes[byteOffset + k]], FALSE)}
        ELSE {o \in UndefinedAccess(bytes, sizeofT, vals) : o.bytes = bytes}

\* bitIndex < _SizeInBytes * 8, the product taken in size_t.
BitInRange(bytes, bitIndex) == bitIndex < (Len(bytes) * 8) % Word

\* A mask that counts the bits of a byte from the most significant end.
BitMaskFromTop(bitIndex) == 2 ^ (7 - (bitIndex % 8))

\* 1u << bitOffset
BitMask(bitIndex) == 2 ^ (bitIndex % 8)

\* The byte holding the bit.
ByteOf(bytes, bitIndex) == bytes[(bitIndex \div 8) + 1]

\* Storing the int result of a compound assignment back into the byte.
StoreByte(bytes, bitIndex, v) ==
    [bytes EXCEPT ![(bitIndex \div 8) + 1] = v % ByteRange]

\* MEMORY_SLICE::GetBit (and IsBitSet, which forwards to it).
SliceGetBit(dbg, bytes, bitIndex, vals) ==
    IF ~BitInRange(bytes, bitIndex)
    THEN IF dbg THEN {MemOutcome(TRUE, FALSE, bytes, << >>, FALSE)}
         ELSE {o \in UndefinedAccess(bytes, 0, vals) : o.bytes = bytes}
                  \cup {MemOutcome(FALSE, FALSE, bytes, << >>, TRUE)}
    ELSE {MemOutcome(FALSE,
                     (ByteOf(bytes, bitIndex) \div BitMask(bitIndex)) % 2 = 1,
                     bytes, << >>, FALSE)}

\* The shape shared by SetBit, ClearBit and ToggleBit: newByte is the int
\* the compound assignment computes.
SliceChangeBit(dbg, bytes, bitIndex, newByte, vals) ==
    IF ~BitInRange(bytes, bitIndex)
    THEN IF dbg THEN {MemOutcome(TRUE, FALSE, bytes, << >>, FALSE)}
         ELSE UndefinedAccess(bytes, 0, vals)
    ELSE {MemOutcome(FALSE, FALSE, StoreByte(bytes, bitIndex, newByte), << >>, FALSE)}

\* MEMORY_SLICE::SetBit
SliceSetBit(dbg, bytes, bitIndex, vals) ==
    SliceChangeBit(dbg, bytes, bitIndex,
                   IF BitInRange(bytes, bitIndex)
                   THEN BitOr(ByteOf(bytes, bitIndex), BitMask(bitIndex)) ELSE 0, vals)

\* A ClearBit written byte &= mask, without the complement.
SliceClearBitKeepingMask(dbg, bytes, bitIndex, vals) ==
    SliceChangeBit(dbg, bytes, bitIndex,
                   IF BitInRange(bytes, bitIndex)
                   THEN BitAnd(ByteOf(bytes, bitIndex), BitMask(bitIndex))
                   ELSE 0, vals)

\* MEMORY_SLICE::ClearBit
SliceClearBit(dbg, bytes, bitIndex, vals) ==
    SliceChangeBit(dbg, bytes, bitIndex,
                   IF BitInRange(bytes, bitIndex)
                   THEN BitAnd(ByteOf(bytes, bitIndex),
                               (UIntRange - 1) - BitMask(bitIndex))
                   ELSE 0, vals)

\* MEMORY_SLICE::ToggleBit
SliceToggleBit(dbg, bytes, bitIndex, vals) ==
    SliceChangeBit(dbg, bytes, bitIndex,
                   IF BitInRange(bytes, bitIndex)
                   THEN BitXor(ByteOf(bytes, bitIndex), BitMask(bitIndex)) ELSE 0, vals)

\* ------------------------------------------------------------- MEMORY_POOL
\* A pool: its block (_Head, _SizeInBytes), _NextOffset and _MaxBytesUsed.
Pool(head, size) ==
    [Head |-> head, SizeInBytes |-> size, NextOffset |-> 0, MaxBytesUsed |-> 0]

Size(p) == p.SizeInBytes
BytesUsed(p) == p.NextOffset
GetMaxBytesUsed(p) == p.MaxBytesUsed

\* (sizeInBytes + 7) & ~7
AlignedReq(n) == BitAnd((n + 7) % Word, BitNot(7))

\* A capacity test that forgets the cursor.
ExceedsIgnoringCursor(p, advance) == advance > p.SizeInBytes

\* The test the code negates: _NextOffset + advance > _Block.GetSize()
Exceeds(p, advance) == (p.NextOffset + advance) % Word > p.SizeInBytes

\* _NextOffset += advance
Advance(p, advance) == [p EXCEPT !.NextOffset = (p.NextOffset + advance) % Word]

\* MEMORY_POOL::TakeSlice
PoolTakeSlice(dbg, p, n) ==
    IF dbg /\ n = 0 THEN Outcome(TRUE, NullSlice, p)
    ELSE LET alignedReq == AlignedReq(n)
         IN  IF Exceeds(p, alignedReq)
             THEN ReturnSlice(dbg, 0, 0, p)
             ELSE ReturnSlice(dbg, (p.Head + p.NextOffset) % Word, n,
                              Advance(p, alignedReq))

\* The store half of _NextOffset += advance, as a caller that loaded the
\* cursor earlier performs it; this one writes the loaded value back.
StoreOffsetUnadvanced(p, loaded, advance) == [p EXCEPT !.NextOffset = loaded]

\* The store half of _NextOffset += advance: the value loaded earlier plus
\* advance.
StoreOffset(p, loaded, advance) ==
    [p EXCEPT !.NextOffset = (loaded + advance) % Word]

\* Two slices share a byte.
SlicesOverlap(s, t) ==
    /\ s.Head < t.Head + t.SizeInBytes
    /\ t.Head < s.Head + s.SizeInBytes

\* An alignment mask written ~alignment instead of ~(alignment - 1).
AlignUpWrongMask(raw, alignment) ==
    BitAnd((raw + (alignment - 1)) % Word, BitNot(alignment))

\* An align-up that adds the whole alignment, so that an address already
\* aligned moves to the next multiple.
AlignUpPastAligned(raw, alignment) ==
    BitAnd((raw + alignment) % Word, BitNot(alignment - 1))

\* (raw + (alignment - 1)) & ~(alignment - 1)
AlignUp(raw, alignment) ==
    BitAnd((raw + (alignment - 1)) % Word, BitNot(alignment - 1))

\* A total advance that is not rounded up to 8.
TotalAdvanceUnrounded(padding, n) == (padding + n) % Word

\* padding + sizeInBytes, rounded up to 8
TotalAdvance(padding, n) == BitAnd((((padding + n) % Word) + 7) % Word, BitNot(7))

IsPowerOfTwo(a) == a > 0 /\ BitAnd(a, a - 1) = 0

\* A TakeAlignedSlice that advances the cursor before it tests the capacity.
PoolTakeAlignedSliceAdvanceFirst(dbg, p, n, alignment) ==
    IF dbg /\ (n = 0 \/ ~IsPowerOfTwo(alignment)) THEN Outcome(TRUE, NullSlice, p)
    ELSE LET raw == (p.Head + p.NextOffset) % Word
             aligned == AlignUp(raw, alignment)
             padding == (aligned - raw) % Word
             totalAdvance == TotalAdvance(padding, n)
             q == Advance(p, totalAdvance)
         IN  IF q.NextOffset > q.SizeInBytes
             THEN ReturnSlice(dbg, 0, 0, q)
             ELSE ReturnSlice(dbg, aligned, n, q)

\* MEMORY_POOL::TakeAlignedSlice
PoolTakeAlignedSlice(dbg, p, n, alignment) ==
    IF dbg /\ (n = 0 \/ ~IsPowerOfTwo(alignment)) THEN Outcome(TRUE, NullSlice, p)
    ELSE LET raw == (p.Head + p.NextOffset) % Word
             aligned == AlignUp(raw, alignment)
             padding == (aligned - raw) % Word
             totalAdvance == TotalAdvance(padding, n)
         IN  IF Exceeds(p, totalAdvance)
             THEN ReturnSlice(dbg, 0, 0, p)
             ELSE ReturnSlice(dbg, aligned, n, Advance(p, totalAdvance))

\* MEMORY_POOL::Take<T>, sizeofT = sizeof(T).  The slice returned carries the
\* typed pointer in Head (0: nullptr).
PoolTake(dbg, p, sizeofT) ==
    LET out == PoolTakeSlice(dbg, p, sizeofT)
    IN  IF out.aborted THEN out
        ELSE IF IsNullPtr(out.slice) THEN Outcome(FALSE, NullSlice, out.pool)
        ELSE Outcome(FALSE, Slice(out.slice.Head, 0), out.pool)

\* MEMORY_POOL::TakeArray<T>
PoolTakeArray(dbg, p, sizeofT, count) ==
    IF count = 0 THEN Outcome(FALSE, NullSlice, p)
    ELSE LET out == PoolTakeSlice(dbg, p, (sizeofT * count) % Word)
         IN  IF out.aborted THEN out
             ELSE IF IsNullPtr(out.slice) THEN Outcome(FALSE, NullSlice, out.pool)
             ELSE Outcome(FALSE, Slice(out.slice.Head, 0), out.pool)

\* A Reset that overwrites the high-water mark with the cursor.
PoolResetOverwritingMark(p) ==
    [p EXCEPT !.MaxBytesUsed = p.NextOffset, !.NextOffset = 0]

\* A Reset that records the high-water mark and leaves the cursor.
PoolResetKeepingCursor(p) ==
    [p EXCEPT !.MaxBytesUsed = IF p.NextOffset > p.MaxBytesUsed
                               THEN p.NextOffset ELSE p.MaxBytesUsed]

\* MEMORY_POOL::Reset
PoolReset(p) ==
    [p EXCEPT !.MaxBytesUsed = IF p.NextOffset > p.MaxBytesUsed
                               THEN p.NextOffset ELSE p.MaxBytesUsed,
              !.NextOffset = 0]

\* A Reset that clears the block.
BlockAfterResetCleared(bytes) == [k \in DOMAIN bytes |-> 0]

\* The block's bytes after MEMORY_POOL::Reset, which writes _MaxBytesUsed and
\* _NextOffset and nothing else.
BlockAfterReset(bytes) == bytes

\* An Owns that tests the whole block instead of the live region.
PoolOwnsWholeBlock(p, ptr) == ptr >= p.Head /\ ptr < (p.Head + p.SizeInBytes) % Word

\* MEMORY_POOL::Owns
PoolOwns(p, ptr) == ptr >= p.Head /\ ptr < (p.Head + p.NextOffset) % Word

\* ------------------------------------------------ DYNAMIC_MEMORY_MANAGER
\* The template parameter Count of the dynamic manager.
DynamicCount == 2

\* Slot indices in range.
Slots == 0..(DynamicCount - 1)

\* A null MEMORY_POOL* in _Pools.
NullPool == [Head |-> 0, SizeInBytes |-> 0, NextOffset |-> 0, MaxBytesUsed |-> 0]

\* A manager: _Pools (each pointer modelled by the pool it points to) and
\* _ActiveCount.
Manager(pools, activeCount) == [Pools |-> pools, ActiveCount |-> activeCount]

\* The constructor: every slot nullptr, _ActiveCount 0.
NewManager == Manager([i \in Slots |-> NullPool], 0)

MaxPoolCount == DynamicCount
ActivePoolCount(m) == m.ActiveCount

\* DYNAMIC_MEMORY_MANAGER::PoolExists
PoolExists(m, index) == index < DynamicCount /\ m.Pools[index] # NullPool

\* What a manager call produces: whether the process aborted, the boolean
\* returned and the manager afterwards.
MgrOutcome(ab, flag, m) == [aborted |-> ab, flag |-> flag, mgr |-> m]

\* A CreatePool that replaces the pool of an occupied slot.
MgrCreatePoolOverwriting(dbg, m, index, poolSize, head) ==
    IF index >= DynamicCount
    THEN MgrOutcome(dbg, FALSE, m)
    ELSE MgrOutcome(FALSE, TRUE,
                    Manager([m.Pools EXCEPT ![index] = Pool(head, poolSize)],
                            (m.ActiveCount + 1) % Word))

\* DYNAMIC_MEMORY_MANAGER::CreatePool; head is the address malloc returns for
\* the new pool's block.  The two asserts abort a debug build on an
\* out-of-range index and on an occupied slot.
MgrCreatePool(dbg, m, index, poolSize, head) ==
    IF dbg /\ (index >= DynamicCount \/ m.Pools[index] # NullPool)
    THEN MgrOutcome(TRUE, FALSE, m)
    ELSE IF index >= DynamicCount \/ m.Pools[index] # NullPool
    THEN MgrOutcome(FALSE, FALSE, m)
    ELSE MgrOutcome(FALSE, TRUE,
                    Manager([m.Pools EXCEPT ![index] = Pool(head, poolSize)],
                            (m.ActiveCount + 1) % Word))

\* A DeletePool that decrements the count whether or not a pool was there.
MgrDeletePoolAlwaysCounting(dbg, m, index) ==
    MgrOutcome(FALSE, FALSE,
               Manager([m.Pools EXCEPT ![index] = NullPool],
                       (m.ActiveCount + Word - 1) % Word))

\* A DeletePool that frees the pool and leaves the pointer in the slot.
MgrDeletePoolKeepingPointer(dbg, m, index) ==
    IF m.Pools[index] # NullPool
    THEN MgrOutcome(FALSE, FALSE,
                    Manager(m.Pools, (m.ActiveCount + Word - 1) % Word))
    ELSE MgrOutcome(FALSE, FALSE, m)

\* DYNAMIC_MEMORY_MANAGER::DeletePool, index in range.
MgrDeletePool(dbg, m, index) ==
    IF m.Pools[index] # NullPool
    THEN MgrOutcome(FALSE, FALSE,
                    Manager([m.Pools EXCEPT ![index] = NullPool],
                            (m.ActiveCount + Word - 1) % Word))
    ELSE MgrOutcome(FALSE, FALSE, m)

\* A ResetPool that resets every existing pool.
MgrResetPoolResettingAll(dbg, m, index) ==
    IF m.Pools[index] = NullPool
    THEN MgrOutcome(TRUE, FALSE, m)
    ELSE MgrOutcome(FALSE, FALSE,
                    Manager([i \in Slots |-> IF m.Pools[i] # NullPool
                                             THEN PoolReset(m.Pools[i]) ELSE NullPool],
                            m.ActiveCount))

\* DYNAMIC_MEMORY_MANAGER::ResetPool, index in range: the assert aborts a
\* debug build on an empty slot; a release build calls Reset through the
\* null pointer and crashes.
MgrResetPool(dbg, m, index) ==
    IF m.Pools[index] = NullPool
    THEN MgrOutcome(TRUE, FALSE, m)
    ELSE MgrOutcome(FALSE, FALSE,
                    Manager([m.Pools EXCEPT ![index] = PoolReset(m.Pools[index])],
                            m.ActiveCount))

\* DYNAMIC_MEMORY_MANAGER::ResetAll
MgrResetAll(m) ==
    Manager([i \in Slots |-> IF m.Pools[i] # NullPool
                             THEN PoolReset(m.Pools[i]) ELSE NullPool],
            m.ActiveCount)

\* A SwapPools that copies slot indexB into slot indexA.
MgrSwapPoolsCopying(m, indexA, indexB) ==
    Manager([m.Pools EXCEPT ![indexA] = m.Pools[indexB]], m.ActiveCount)

\* A SwapPools that returns early when either slot is empty.
MgrSwapPoolsSkippingEmpty(m, indexA, indexB) ==
    IF m.Pools[indexA] = NullPool \/ m.Pools[indexB] = NullPool
    THEN m
    ELSE Manager([m.Pools EXCEPT ![indexA] = m.Pools[indexB],
                                 ![indexB] = m.Pools[indexA]],
                 m.ActiveCount)

\* DYNAMIC_MEMORY_MANAGER::SwapPools, both indices in range.
MgrSwapPools(m, indexA, indexB) ==
    Manager([m.Pools EXCEPT ![indexA] = m.Pools[indexB],
                            ![indexB] = m.Pools[indexA]],
            m.ActiveCount)

\* -------------------------------------------------- FIXED_MEMORY_MANAGER
\* The template parameter Count of the fixed manager.
FixedCount == 2

FixedSlots == 0..(FixedCount - 1)

\* The constructor: _StaticPools{ MEMORY_POOL(sizes)... }, pool i built with
\* sizes[i] on the block malloc returned at heads[i].
FixedManager(sizes, heads) == [i \in FixedSlots |-> Pool(heads[i], sizes[i])]

\* FIXED_MEMORY_MANAGER::ResetPool(index), index in range.
FixedManagerResetPool(f, index) == [f EXCEPT ![index] = PoolReset(f[index])]

\* A ResetAll whose loop stops one pool short.
FixedManagerResetAllButLast(f) ==
    [i \in FixedSlots |-> IF i + 1 < FixedCount THEN PoolReset(f[i]) ELSE f[i]]

\* FIXED_MEMORY_MANAGER::ResetAll
FixedManagerResetAll(f) == [i \in FixedSlots |-> PoolReset(f[i])]

\* -------------------------------------------------------- MEMORY_MANAGER
\* The composite manager: _FixedManager and _DynamicManager.
Composite(f, m) == [f |-> f, m |-> m]

\* What a composite call produces: whether the process aborted, the boolean
\* returned and the composite afterwards.
CompositeOutcome(ab, flag, c) == [aborted |-> ab, flag |-> flag, c |-> c]

\* A call forwarded to the dynamic manager.
ForwardDynamic(c, out) == CompositeOutcome(out.aborted, out.flag, Composite(c.f, out.mgr))

\* MEMORY_MANAGER::ResetFixedPool(index)
CompositeResetFixedPool(c, index) == Composite(FixedManagerResetPool(c.f, index), c.m)

\* MEMORY_MANAGER::ResetAllFixed
CompositeResetAllFixed(c) == Composite(FixedManagerResetAll(c.f), c.m)

\* MEMORY_MANAGER::CreateDynamicPool
CompositeCreateDynamicPool(dbg, c, index, poolSize, head) ==
    ForwardDynamic(c, MgrCreatePool(dbg, c.m, index, poolSize, head))

\* MEMORY_MANAGER::DeleteDynamicPool
CompositeDeleteDynamicPool(dbg, c, index) ==
    ForwardDynamic(c, MgrDeletePool(dbg, c.m, index))

\* MEMORY_MANAGER::DynamicPoolExists
CompositeDynamicPoolExists(c, index) == PoolExists(c.m, index)

\* MEMORY_MANAGER::SwapDynamicPools
CompositeSwapDynamicPools(c, indexA, indexB) ==
    Composite(c.f, MgrSwapPools(c.m, indexA, indexB))

\* MEMORY_MANAGER::ResetDynamicPool
CompositeResetDynamicPool(dbg, c, index) ==
    ForwardDynamic(c, MgrResetPool(dbg, c.m, index))

\* MEMORY_MANAGER::ResetAllDynamic
CompositeResetAllDynamic(c) == Composite(c.f, MgrResetAll(c.m))

\* A ResetAll that forwards to the fixed manager only.
CompositeResetAllFixedOnly(c) == Composite(FixedManagerResetAll(c.f), c.m)

\* MEMORY_MANAGER::ResetAll
CompositeResetAll(c) == Composite(FixedManagerResetAll(c.f), MgrResetAll(c.m))

\* The member functions DYNAMIC_MEMORY_MANAGER declares.
DynamicMembers ==
    {"MaxPoolCount", "ActivePoolCount", "CreatePool", "DeletePool", "GetPool",
     "PoolExists", "ResetPool", "ResetAll", "SwapPools"}

\* The value of a call, or none when the call names no member and the
\* program that makes it is ill-formed.
Value(v) == [defined |-> TRUE, value |-> v]
NoValue == [defined |-> FALSE, value |-> 0]

\* MEMORY_MANAGER::GetActiveDynamicCount: return
\* _DynamicManager.GetActiveCount();
CompositeGetActiveDynamicCount(c) ==
    IF "GetActiveCount" \in DynamicMembers
    THEN Value(ActivePoolCount(c.m))
    ELSE NoValue

\* ------------------------------------------------------------------ state
VARIABLES
    debug,      \* TRUE: assert() is live in this build
    pool,       \* the MEMORY_POOL
    aborted,    \* a failed assert has terminated the process
    call,       \* the last call made: operation, arguments, pool before it
    ret,        \* what that call returned
    run,        \* the TakeSlice-only sequence since the pool was empty
    slice,      \* a slice the caller holds and applies slice operations to
    peak,       \* largest BytesUsed() seen immediately before a Reset so far
    mem,        \* the bytes behind `slice` and behind a second slice
    mgr,        \* the pool manager (dynamic, fixed or composite)
    thr         \* the threads calling into the pool concurrently

vars == <<debug, pool, aborted, call, ret, run, slice, peak, mem, mgr, thr>>

\* No concurrent callers.
NoThr == << >>

\* The values of mem and mgr where no slice bytes and no manager are in play.
NoMem == [bytes |-> << >>]
NoMgr == [Pools |-> << >>]

Call(op, n, a, before, r) ==
    [op |-> op, n |-> n, a |-> a, before |-> before, run |-> r]

\* A return value: a slice or pointer (Head, SizeInBytes) or a bool (flag).
Ret(head, size, flag) == [Head |-> head, SizeInBytes |-> size, flag |-> flag]

NoRet == Ret(0, 0, FALSE)

\* run.valid: every call since the pool was last empty was a TakeSlice that
\* succeeded; run.sum: the sum of roundUp(s_i, 8) over those calls (capped
\* at Word, which exceeds every capacity).
FreshRun == [valid |-> TRUE, sum |-> 0]
BrokenRun == [valid |-> FALSE, sum |-> 0]

Init ==
    /\ debug \in BOOLEAN
    /\ \E h \in Heads, c \in Capacities : pool = Pool(h, c)
    /\ aborted = FALSE
    /\ call = Call("none", 0, 0, pool, FreshRun)
    /\ ret = NoRet
    /\ run = FreshRun
    /\ slice = NullSlice
    /\ peak = 0
    /\ thr = NoThr
    /\ mem = NoMem
    /\ mgr = NoMgr

\* The effect of a slice-returning pool call on the state.
Apply(op, n, a, out, newRun) ==
    /\ call' = Call(op, n, a, pool, run)
    /\ aborted' = out.aborted
    /\ pool' = out.pool
    /\ ret' = IF out.aborted THEN NoRet
              ELSE Ret(out.slice.Head, out.slice.SizeInBytes, FALSE)
    /\ run' = newRun
    /\ UNCHANGED <<debug, slice, peak, mem, mgr, thr>>

TakeSlice ==
    /\ ~aborted
    /\ \E n \in Sizes :
         LET out == PoolTakeSlice(debug, pool, n)
             ok == ~out.aborted /\ ~IsNullPtr(out.slice)
         IN  Apply("TakeSlice", n, 0, out,
                   IF ok /\ run.valid
                   THEN [run EXCEPT !.sum = Min(run.sum + RoundUp(n, 8), Word)]
                   ELSE BrokenRun)

TakeAlignedSlice ==
    /\ ~aborted
    /\ \E n \in AlignedSizes, a \in Alignments :
         Apply("TakeAlignedSlice", n, a, PoolTakeAlignedSlice(debug, pool, n, a),
               BrokenRun)

Reset ==
    /\ ~aborted
    /\ call' = Call("Reset", 0, 0, pool, run)
    /\ pool' = PoolReset(pool)
    /\ ret' = NoRet
    /\ run' = FreshRun
    /\ peak' = Max(peak, pool.NextOffset)
    /\ UNCHANGED <<debug, aborted, slice, mem, mgr, thr>>

\* Take<T>(args...): n records sizeof(T).
Take ==
    /\ ~aborted
    /\ \E t \in TypeSizes :
         Apply("Take", t, 0, PoolTake(debug, pool, t), BrokenRun)

\* TakeArray<T>(count): n records sizeof(T), a records count.
TakeArray ==
    /\ ~aborted
    /\ \E t \in ElemSizes, c \in Counts :
         Apply("TakeArray", t, c, PoolTakeArray(debug, pool, t, c), BrokenRun)

\* Addresses Owns is asked about: below the block, its first byte, the last
\* live byte, the first unused byte, the last byte of the block, past it,
\* and the ends of the address space.
ProbeAddrs(p) ==
    {0, p.Head - 1, p.Head, p.Head + p.NextOffset - 1, p.Head + p.NextOffset,
     p.Head + p.SizeInBytes - 1, p.Head + p.SizeInBytes, Word - 1}

\* Owns(ptr): a records ptr, ret.flag the answer.
Owns ==
    /\ ~aborted
    /\ \E ptr \in ProbeAddrs(pool) :
         /\ call' = Call("Owns", 0, ptr, pool, run)
         /\ ret' = Ret(0, 0, PoolOwns(pool, ptr))
    /\ UNCHANGED <<debug, pool, aborted, run, slice, peak, mem, mgr, thr>>

Next ==
    \/ TakeSlice
    \/ TakeAlignedSlice
    \/ Take
    \/ TakeArray
    \/ Reset
    \/ Owns

Spec == Init /\ [][Next]_vars

\* ------------------------------------------- typed takes on a 64-byte pool
\* The end-to-end scenario of the specification: a 64-byte pool served by
\* Take<T> alone.
ScenarioCapacity == 64

InitTake ==
    /\ debug \in BOOLEAN
    /\ \E h \in Heads : pool = Pool(h, ScenarioCapacity)
    /\ aborted = FALSE
    /\ call = Call("none", 0, 0, pool, FreshRun)
    /\ ret = NoRet
    /\ run = FreshRun
    /\ slice = NullSlice
    /\ peak = 0
    /\ thr = NoThr
    /\ mem = NoMem
    /\ mgr = NoMgr

NextTake == Take

SpecTake == InitTake /\ [][NextTake]_vars

\* ------------------------------------------------- slice operations alone
\* Non-null slices a caller may hold: sizes up to MaxSliceSize at the heads
\* a pool hands out.
MaxSliceSize == 9

HeldSlices == {Slice(h, z) : h \in {4096, 4152}, z \in 1..MaxSliceSize}

\* Offsets and sizes passed to Subslice: inside, at the edge, past the end
\* and near the top of size_t.
SubArgs == (0..(MaxSliceSize + 1)) \cup {Word - 1, Word - 2}

InitSlice ==
    /\ debug \in BOOLEAN
    /\ pool = Pool(4096, MaxCap)
    /\ aborted = FALSE
    /\ call = Call("none", 0, 0, pool, FreshRun)
    /\ ret = NoRet
    /\ run = FreshRun
    /\ slice \in HeldSlices
    /\ peak = 0
    /\ thr = NoThr
    /\ mem = NoMem
    /\ mgr = NoMgr

\* slice.Subslice(offset, size): a records offset, n records size.
Subslice ==
    /\ ~aborted
    /\ \E offset \in SubArgs, size \in SubArgs :
         LET out == SliceSubslice(debug, slice, offset, size, pool)
         IN  /\ call' = Call("Subslice", size, offset, pool, FreshRun)
             /\ aborted' = out.aborted
             /\ ret' = IF out.aborted THEN NoRet
                       ELSE Ret(out.slice.Head, out.slice.SizeInBytes, FALSE)
             /\ UNCHANGED <<debug, pool, run, slice, peak, mem, mgr, thr>>

NextSlice == Subslice

SpecSlice == InitSlice /\ [][NextSlice]_vars

\* --------------------------------------------- slice contents: copy, compare
\* Largest slice whose contents are tracked.
MaxBufSize == 3

\* Byte values stored in the tracked slices.
ByteVals == {0, 255}

\* The source slice of CopyFrom and right-hand side of Equals: a fixed
\* pattern of each size.
Pattern(n) == [k \in 1..n |-> IF k % 2 = 1 THEN 255 ELSE 0]

\* Offsets and sizes passed to CopyFrom, Write and Read: inside, at the edge
\* and near the top of size_t.
MemArgs == {0, 1, MaxBufSize, Word - 1}
SrcArgs == {0, 1, Word - 1}
MemSizes == {0, 1, MaxBufSize - 1, MaxBufSize, Word - 1}

\* Sizes of the tracked slices.
BufSizes == {MaxBufSize - 1, MaxBufSize}

\* Object representations of the values written with Write<T>, sizeof(T)
\* being 1 or 2.
WriteValues == [1..1 -> ByteVals] \cup [1..2 -> ByteVals]

\* The contents state: bytes of the slice operated on, bytes of the other
\* slice, the bytes before the last call, the value written or read, the
\* source offset of the last CopyFrom, and whether the last call accessed
\* memory outside the slices.
Mem(bytes, other, prev, value, srcOffset, oob) ==
    [bytes |-> bytes, other |-> other, prev |-> prev, value |-> value,
     srcOffset |-> srcOffset, oob |-> oob]

InitMem ==
    /\ debug \in BOOLEAN
    /\ pool = Pool(4096, MaxCap)
    /\ aborted = FALSE
    /\ call = Call("none", 0, 0, pool, FreshRun)
    /\ ret = NoRet
    /\ run = FreshRun
    /\ \E n \in BufSizes, m \in BufSizes :
         /\ slice = Slice(4096, n)
         /\ mem = Mem([k \in 1..n |-> 0], Pattern(m), [k \in 1..n |-> 0],
                      << >>, 0, FALSE)
    /\ peak = 0
    /\ thr = NoThr
    /\ mgr = NoMgr

\* The effect of a call on the contents of the slice.
ApplyMem(op, n, a, out, value, srcOffset) ==
    /\ call' = Call(op, n, a, pool, FreshRun)
    /\ aborted' = out.aborted
    /\ ret' = Ret(0, 0, out.flag)
    /\ mem' = Mem(out.bytes, mem.other, mem.bytes, value, srcOffset, out.oob)
    /\ UNCHANGED <<debug, pool, run, slice, peak, mgr, thr>>

\* slice.CopyFrom(other, srcOffset, dstOffset, size): n records size, a
\* records dstOffset.
CopyFrom ==
    /\ ~aborted
    /\ \E srcOffset \in SrcArgs, dstOffset \in MemArgs, size \in MemSizes :
         \E out \in SliceCopyFrom(debug, mem.bytes, mem.other,
                                  srcOffset, dstOffset, size, ByteVals) :
             ApplyMem("CopyFrom", size, dstOffset, out, << >>, srcOffset)

\* slice.Write<T>(value, byteOffset): n records sizeof(T), a records
\* byteOffset.
Write ==
    /\ ~aborted
    /\ \E value \in WriteValues, byteOffset \in MemArgs :
         \E out \in SliceWrite(debug, mem.bytes, value, byteOffset, ByteVals) :
             ApplyMem("Write", Len(value), byteOffset, out, value, 0)

\* slice.Read<T>(out, byteOffset): mem.value records what out holds
\* afterwards.
Read ==
    /\ ~aborted
    /\ \E sizeofT \in 1..2, byteOffset \in MemArgs :
         \E out \in SliceRead(debug, mem.bytes, sizeofT, byteOffset, ByteVals) :
             ApplyMem("Read", sizeofT, byteOffset, out, out.out, 0)

\* slice.Equals(other): ret.flag records the answer.
Equals ==
    /\ ~aborted
    /\ ApplyMem("Equals", 0, 0,
                MemOutcome(FALSE, SliceEquals(mem.bytes, mem.other),
                           mem.bytes, << >>, FALSE),
                << >>, 0)

NextMem ==
    \/ CopyFrom
    \/ Write
    \/ Read
    \/ Equals

SpecMem == InitMem /\ [][NextMem]_vars

\* ------------------------------------------------- slice contents: bits
\* Largest slice whose bits are operated on.
MaxBitBytes == 2

\* Initial contents: all zero, and a pattern with both bit values in every
\* byte.
BitContents(n) ==
    {[k \in 1..n |-> 0], [k \in 1..n |-> IF k % 2 = 1 THEN 165 ELSE 90]}

\* Bit indices passed to the calls: both ends and the middle of the first
\* byte, a bit of the second byte, and one past every slice.
BitIndices == {0, 3, 7, 9, 8 * MaxBitBytes}

\* The call before the last one, kept when it was a ToggleBit: its index and
\* the bytes it started from.
Last(op, i, bytes) == [op |-> op, i |-> i, bytes |-> bytes]
NoLast == Last("none", 0, << >>)

\* The contents state of the bit operations.
BitMem(bytes, prev, oob, last) ==
    [bytes |-> bytes, prev |-> prev, oob |-> oob, last |-> last]

InitBits ==
    /\ debug \in BOOLEAN
    /\ pool = Pool(4096, MaxCap)
    /\ aborted = FALSE
    /\ call = Call("none", 0, 0, pool, FreshRun)
    /\ ret = NoRet
    /\ run = FreshRun
    /\ \E n \in 1..MaxBitBytes :
         /\ slice = Slice(4096, n)
         /\ \E b \in BitContents(n) : mem = BitMem(b, b, FALSE, NoLast)
    /\ peak = 0
    /\ thr = NoThr
    /\ mgr = NoMgr

\* The effect of a bit call: a records the bit index.
ApplyBit(op, bitIndex, out) ==
    /\ call' = Call(op, 0, bitIndex, pool, FreshRun)
    /\ aborted' = out.aborted
    /\ ret' = Ret(0, 0, out.flag)
    /\ mem' = BitMem(out.bytes, mem.bytes, out.oob,
                     IF call.op = "ToggleBit" /\ ~mem.oob
                     THEN Last("ToggleBit", call.a, mem.prev)
                     ELSE NoLast)
    /\ UNCHANGED <<debug, pool, run, slice, peak, mgr, thr>>

GetBit ==
    /\ ~aborted
    /\ \E i \in BitIndices :
         \E out \in SliceGetBit(debug, mem.bytes, i, ByteVals) :
             ApplyBit("GetBit", i, out)

\* IsBitSet forwards to GetBit.
IsBitSet ==
    /\ ~aborted
    /\ \E i \in BitIndices :
         \E out \in SliceGetBit(debug, mem.bytes, i, ByteVals) :
             ApplyBit("IsBitSet", i, out)

SetBit ==
    /\ ~aborted
    /\ \E i \in BitIndices :
         \E out \in SliceSetBit(debug, mem.bytes, i, ByteVals) :
             ApplyBit("SetBit", i, out)

ClearBit ==
    /\ ~aborted
    /\ \E i \in BitIndices :
         \E out \in SliceClearBit(debug, mem.bytes, i, ByteVals) :
             ApplyBit("ClearBit", i, out)

ToggleBit ==
    /\ ~aborted
    /\ \E i \in BitIndices :
         \E out \in SliceToggleBit(debug, mem.bytes, i, ByteVals) :
             ApplyBit("ToggleBit", i, out)

NextBits ==
    \/ GetBit
    \/ IsBitSet
    \/ SetBit
    \/ ClearBit
    \/ ToggleBit

SpecBits == InitBits /\ [][NextBits]_vars

\* ------------------------------------------------ dynamic manager alone
\* Capacities pools are created with.
PoolSizes == {8, 16}

\* Addresses malloc has for the blocks of the manager's pools; a new block
\* gets the lowest one no live pool holds.
BlockAddrs == {4096 + 64 * k : k \in 0..DynamicCount}
NewHead(m) ==
    CHOOSE h \in BlockAddrs :
        /\ \A i \in Slots : m.Pools[i].Head # h
        /\ \A g \in BlockAddrs : (\A i \in Slots : m.Pools[i].Head # g) => h <= g

\* The free store as the manager uses it: the heads of the blocks malloc
\* returned and free has not yet taken back, whether free was ever called on
\* a block that was not live, and whether the manager was destroyed.
Heap(live, bad, destroyed) == [live |-> live, bad |-> bad, destroyed |-> destroyed]
NewHeap == Heap({}, FALSE, FALSE)

\* new MEMORY_POOL(poolSize): malloc returns the block at head.
HeapAlloc(h, head) == Heap(h.live \cup {head}, h.bad, h.destroyed)

\* delete of a pool: ~MEMORY_BLOCK frees the block at head.
HeapFree(h, head) == Heap(h.live \ {head}, h.bad \/ head \notin h.live, h.destroyed)

\* The destructor's loop from slot i on.
RECURSIVE DeleteFrom(_, _, _)
DeleteFrom(h, m, i) ==
    IF i >= DynamicCount
    THEN h
    ELSE DeleteFrom(IF m.Pools[i] # NullPool
                    THEN HeapFree(h, m.Pools[i].Head) ELSE h, m, i + 1)

\* DYNAMIC_MEMORY_MANAGER::~DYNAMIC_MEMORY_MANAGER
MgrDestructor(h, m) ==
    LET after == DeleteFrom(h, m, 0) IN Heap(after.live, after.bad, TRUE)

\* The manager state: the manager, the number of CreatePool calls that
\* returned true minus the number of DeletePool calls that removed a pool,
\* and the pool the last DeletePool found in its slot (kept over a CreatePool
\* of that slot that follows it directly).
MgrState(m, net, removed) == [m |-> m, net |-> net, removed |-> removed]

InitMgr ==
    /\ debug \in BOOLEAN
    /\ pool = Pool(4096, MaxCap)
    /\ aborted = FALSE
    /\ call = Call("none", 0, 0, pool, FreshRun)
    /\ ret = NoRet
    /\ run = FreshRun
    /\ slice = NullSlice
    /\ peak = 0
    /\ thr = NoThr
    /\ mem = NewHeap
    /\ mgr = MgrState(NewManager, 0, NullPool)

\* The effect of a manager call: n and a record its arguments.
ApplyMgr(op, n, a, out, net, removed, heap) ==
    /\ call' = Call(op, n, a, pool, FreshRun)
    /\ aborted' = out.aborted
    /\ ret' = Ret(0, 0, out.flag)
    /\ mgr' = MgrState(out.mgr, net, removed)
    /\ mem' = heap
    /\ UNCHANGED <<debug, pool, run, slice, peak, thr>>

\* CreatePool(index, poolSize): a records index, n records poolSize.  The
\* index DynamicCount is out of range.
CreatePool ==
    /\ ~aborted /\ ~mem.destroyed
    /\ \E index \in 0..DynamicCount, poolSize \in PoolSizes :
         LET out == MgrCreatePool(debug, mgr.m, index, poolSize, NewHead(mgr.m))
         IN  ApplyMgr("CreatePool", poolSize, index, out,
                      mgr.net + (IF out.flag THEN 1 ELSE 0),
                      IF call.op = "DeletePool" /\ call.a = index
                      THEN mgr.removed ELSE NullPool,
                      IF out.flag THEN HeapAlloc(mem, NewHead(mgr.m)) ELSE mem)

\* DeletePool(index), index in range: a records index.
DeletePool ==
    /\ ~aborted /\ ~mem.destroyed
    /\ \E index \in Slots :
         LET out == MgrDeletePool(debug, mgr.m, index)
         IN  ApplyMgr("DeletePool", 0, index, out,
                      mgr.net - (IF PoolExists(mgr.m, index)
                                    /\ ~PoolExists(out.mgr, index)
                                 THEN 1 ELSE 0),
                      mgr.m.Pools[index],
                      IF PoolExists(mgr.m, index) /\ ~out.aborted
                      THEN HeapFree(mem, mgr.m.Pools[index].Head) ELSE mem)

\* SwapPools(indexA, indexB), both in range: a records indexA, n indexB.
SwapPools ==
    /\ ~aborted /\ ~mem.destroyed
    /\ \E indexA \in Slots, indexB \in Slots :
         ApplyMgr("SwapPools", indexB, indexA,
                  MgrOutcome(FALSE, FALSE, MgrSwapPools(mgr.m, indexA, indexB)),
                  mgr.net, NullPool, mem)

\* ResetPool(index), index in range.
ResetPool ==
    /\ ~aborted /\ ~mem.destroyed
    /\ \E index \in Slots :
         ApplyMgr("ResetPool", 0, index, MgrResetPool(debug, mgr.m, index),
                  mgr.net, NullPool, mem)

ResetAll ==
    /\ ~aborted /\ ~mem.destroyed
    /\ ApplyMgr("ResetAll", 0, 0, MgrOutcome(FALSE, FALSE, MgrResetAll(mgr.m)),
                mgr.net, NullPool, mem)

\* GetPool(index).TakeSlice(n) on an existing pool, n being its capacity: a
\* records index, n the request.
GetPoolTakeSlice ==
    /\ ~aborted /\ ~mem.destroyed
    /\ \E index \in Slots :
         /\ PoolExists(mgr.m, index)
         /\ LET n == Size(mgr.m.Pools[index])
                out == PoolTakeSlice(debug, mgr.m.Pools[index], n)
            IN  ApplyMgr("GetPoolTakeSlice", n, index,
                         MgrOutcome(out.aborted, FALSE,
                                    Manager([mgr.m.Pools EXCEPT ![index] = out.pool],
                                            mgr.m.ActiveCount)),
                         mgr.net, NullPool, mem)

\* ~DYNAMIC_MEMORY_MANAGER: the end of the manager's lifetime; nothing is
\* called on it afterwards.
Destroy ==
    /\ ~aborted /\ ~mem.destroyed
    /\ call' = Call("Destroy", 0, 0, pool, FreshRun)
    /\ mem' = MgrDestructor(mem, mgr.m)
    /\ UNCHANGED <<debug, pool, aborted, ret, run, slice, peak, mgr, thr>>

NextMgr ==
    \/ CreatePool
    \/ DeletePool
    \/ SwapPools
    \/ ResetPool
    \/ ResetAll
    \/ GetPoolTakeSlice
    \/ Destroy

SpecMgr == InitMgr /\ [][NextMgr]_vars

\* -------------------------------------------------- fixed manager alone
\* Sizes the fixed manager is constructed with.
FixedSizes == {8, 16}

\* Addresses malloc returned for the blocks of the fixed pools.
FixedHeads == [i \in FixedSlots |-> 8192 + 64 * i]

\* The fixed manager state: its pools and the sizes it was constructed with.
FixedState(f, sizes) == [f |-> f, sizes |-> sizes]

InitFixed ==
    /\ debug \in BOOLEAN
    /\ pool = Pool(4096, MaxCap)
    /\ aborted = FALSE
    /\ call = Call("none", 0, 0, pool, FreshRun)
    /\ ret = NoRet
    /\ run = FreshRun
    /\ slice = NullSlice
    /\ peak = 0
    /\ thr = NoThr
    /\ mem = NoMem
    /\ \E sizes \in [FixedSlots -> FixedSizes] :
         mgr = FixedState(FixedManager(sizes, FixedHeads), sizes)

\* The effect of a call on the fixed manager: a records the index.
ApplyFixed(op, n, a, ab, f) ==
    /\ call' = Call(op, n, a, pool, FreshRun)
    /\ aborted' = ab
    /\ ret' = NoRet
    /\ mgr' = FixedState(f, mgr.sizes)
    /\ UNCHANGED <<debug, pool, run, slice, peak, mem, thr>>

\* GetPool(index).TakeSlice(8), index in range.
FixedGetPoolTakeSlice ==
    /\ ~aborted
    /\ \E index \in FixedSlots :
         LET out == PoolTakeSlice(debug, mgr.f[index], 8)
         IN  ApplyFixed("FixedGetPoolTakeSlice", 8, index, out.aborted,
                        [mgr.f EXCEPT ![index] = out.pool])

\* ResetPool(index), index in range.
FixedResetPool ==
    /\ ~aborted
    /\ \E index \in FixedSlots :
         ApplyFixed("FixedResetPool", 0, index, FALSE,
                    FixedManagerResetPool(mgr.f, index))

FixedResetAll ==
    /\ ~aborted
    /\ ApplyFixed("FixedResetAll", 0, 0, FALSE, FixedManagerResetAll(mgr.f))

NextFixed ==
    \/ FixedGetPoolTakeSlice
    \/ FixedResetPool
    \/ FixedResetAll

SpecFixed == InitFixed /\ [][NextFixed]_vars

\* ---------------------------------------------------- composite manager
\* Indices the composite is called with: the first and the last of a range.
Ends(count) == {0, count - 1}

\* Sizes the composite is constructed with, and the capacity of the dynamic
\* pools created through it.
CompositeSizes == [i \in FixedSlots |-> IF i = 0 THEN 8 ELSE 16]
CompositePoolSizes == {8}

\* The composite state: the manager, the sizes its fixed pools were built
\* with, and the value the last GetActiveDynamicCount produced.
CompositeState(c, sizes, result) == [c |-> c, sizes |-> sizes, result |-> result]

InitComposite ==
    /\ debug \in BOOLEAN
    /\ pool = Pool(4096, MaxCap)
    /\ aborted = FALSE
    /\ call = Call("none", 0, 0, pool, FreshRun)
    /\ ret = NoRet
    /\ run = FreshRun
    /\ slice = NullSlice
    /\ peak = 0
    /\ thr = NoThr
    /\ mem = NoMem
    /\ mgr = CompositeState(Composite(FixedManager(CompositeSizes, FixedHeads),
                                      NewManager),
                            CompositeSizes, NoValue)

\* The effect of a composite call: n and a record its arguments.
ApplyComposite(op, n, a, out, result) ==
    /\ call' = Call(op, n, a, pool, FreshRun)
    /\ aborted' = out.aborted
    /\ ret' = Ret(0, 0, out.flag)
    /\ mgr' = CompositeState(out.c, mgr.sizes, result)
    /\ UNCHANGED <<debug, pool, run, slice, peak, mem, thr>>

\* GetFixedPool(index).TakeSlice(n), n the capacity of the pool.
GetFixedPoolTakeSlice ==
    /\ ~aborted
    /\ \E index \in Ends(FixedCount) :
         LET n == Size(mgr.c.f[index])
             out == PoolTakeSlice(debug, mgr.c.f[index], n)
         IN  ApplyComposite("GetFixedPoolTakeSlice", n, index,
                            CompositeOutcome(out.aborted, FALSE,
                                Composite([mgr.c.f EXCEPT ![index] = out.pool], mgr.c.m)),
                            NoValue)

ResetFixedPool ==
    /\ ~aborted
    /\ \E index \in Ends(FixedCount) :
         ApplyComposite("ResetFixedPool", 0, index,
                        CompositeOutcome(FALSE, FALSE,
                                         CompositeResetFixedPool(mgr.c, index)),
                        NoValue)

ResetAllFixed ==
    /\ ~aborted
    /\ ApplyComposite("ResetAllFixed", 0, 0,
                      CompositeOutcome(FALSE, FALSE, CompositeResetAllFixed(mgr.c)),
                      NoValue)

\* CreateDynamicPool(index, poolSize); the index DynamicCount is out of
\* range.
CreateDynamicPool ==
    /\ ~aborted
    /\ \E index \in Ends(DynamicCount) \cup {DynamicCount},
          poolSize \in CompositePoolSizes :
         ApplyComposite("CreateDynamicPool", poolSize, index,
                        CompositeCreateDynamicPool(debug, mgr.c, index, poolSize,
                                                   NewHead(mgr.c.m)),
                        NoValue)

DeleteDynamicPool ==
    /\ ~aborted
    /\ \E index \in Ends(DynamicCount) :
         ApplyComposite("DeleteDynamicPool", 0, index,
                        CompositeDeleteDynamicPool(debug, mgr.c, index), NoValue)

\* GetDynamicPool(index).TakeSlice(n) on an existing pool, n its capacity.
GetDynamicPoolTakeSlice ==
    /\ ~aborted
    /\ \E index \in Ends(DynamicCount) :
         /\ CompositeDynamicPoolExists(mgr.c, index)
         /\ LET n == Size(mgr.c.m.Pools[index])
                out == PoolTakeSlice(debug, mgr.c.m.Pools[index], n)
            IN  ApplyComposite("GetDynamicPoolTakeSlice", n, index,
                               CompositeOutcome(out.aborted, FALSE,
                                   Composite(mgr.c.f,
                                       Manager([mgr.c.m.Pools EXCEPT ![index] = out.pool],
                                               mgr.c.m.ActiveCount))),
                               NoValue)

\* SwapDynamicPools(indexA, indexB): a records indexA, n indexB.
SwapDynamicPools ==
    /\ ~aborted
    /\ \E indexA \in Ends(DynamicCount), indexB \in Ends(DynamicCount) :
         ApplyComposite("SwapDynamicPools", indexB, indexA,
                        CompositeOutcome(FALSE, FALSE,
                            CompositeSwapDynamicPools(mgr.c, indexA, indexB)),
                        NoValue)

ResetDynamicPool ==
    /\ ~aborted
    /\ \E index \in Ends(DynamicCount) :
         ApplyComposite("ResetDynamicPool", 0, index,
                        CompositeResetDynamicPool(debug, mgr.c, index), NoValue)

ResetAllDynamic ==
    /\ ~aborted
    /\ ApplyComposite("ResetAllDynamic", 0, 0,
                      CompositeOutcome(FALSE, FALSE, CompositeResetAllDynamic(mgr.c)),
                      NoValue)

\* MEMORY_MANAGER::ResetAll
ManagerResetAll ==
    /\ ~aborted
    /\ ApplyComposite("ResetAll", 0, 0,
                      CompositeOutcome(FALSE, FALSE, CompositeResetAll(mgr.c)),
                      NoValue)

\* GetActiveDynamicCount(): a program in which the call has no value does
\* not build, and nothing follows it.
GetActiveDynamicCount ==
    /\ ~aborted
    /\ LET result == CompositeGetActiveDynamicCount(mgr.c)
       IN  ApplyComposite("GetActiveDynamicCount", 0, 0,
                          CompositeOutcome(~result.defined, FALSE, mgr.c), result)

NextComposite ==
    \/ GetFixedPoolTakeSlice
    \/ ResetFixedPool
    \/ ResetAllFixed
    \/ CreateDynamicPool
    \/ DeleteDynamicPool
    \/ GetDynamicPoolTakeSlice
    \/ SwapDynamicPools
    \/ ResetDynamicPool
    \/ ResetAllDynamic
    \/ ManagerResetAll
    \/ GetActiveDynamicCount

SpecComposite == InitComposite /\ [][NextComposite]_vars


\* ------------------------------------------------ unsynchronised callers
\* Callers of TakeSlice on one pool without synchronisation.  MEMORY_POOL
\* has no lock and no atomic: each access of _NextOffset in TakeSlice (the
\* capacity test, the address computation, the load and the store of +=) is
\* a step of its own, and the steps of the callers interleave.
MaxCallers == 2
RaceSizes == {8, 16}

\* A caller: where it is in TakeSlice, its request, the address it computed,
\* the cursor it loaded, and the slice its last call returned.
Caller(pc, n, ptr, loaded, r) ==
    [pc |-> pc, n |-> n, ptr |-> ptr, loaded |-> loaded, ret |-> r]
IdleCaller(r) == Caller("idle", 0, 0, 0, r)

\* The callers, the non-null slices returned since the last Reset, and
\* whether one of them shared a byte with an earlier one.
Race(t, held, overlap) == [t |-> t, held |-> held, overlap |-> overlap]

InitRace ==
    /\ debug \in BOOLEAN
    /\ pool = Pool(4096, 16)
    /\ aborted = FALSE
    /\ call = Call("none", 0, 0, pool, FreshRun)
    /\ ret = NoRet
    /\ run = FreshRun
    /\ slice = NullSlice
    /\ peak = 0
    /\ mem = NoMem
    /\ mgr = NoMgr
    /\ \E callers \in 1..MaxCallers :
         thr = Race([c \in 1..callers |-> IdleCaller(NullSlice)], {}, FALSE)

RaceStep(c, caller, p, ab, held, overlap) ==
    /\ thr' = Race([thr.t EXCEPT ![c] = caller], held, overlap)
    /\ pool' = p
    /\ aborted' = ab
    /\ UNCHANGED <<debug, call, ret, run, slice, peak, mem, mgr>>

\* A caller enters TakeSlice(n) and makes the capacity test:
\* if (_NextOffset + alignedReq > _Block.GetSize()) return MEMORY_SLICE(nullptr, 0);
RaceCheck ==
    /\ ~aborted
    /\ \E c \in DOMAIN thr.t, n \in RaceSizes :
         /\ thr.t[c].pc = "idle"
         /\ IF Exceeds(pool, AlignedReq(n))
            THEN LET out == ReturnSlice(debug, 0, 0, pool)
                 IN  RaceStep(c, IdleCaller(out.slice), pool, out.aborted,
                              thr.held, thr.overlap)
            ELSE RaceStep(c, Caller("ptr", n, 0, 0, NullSlice), pool, FALSE,
                          thr.held, thr.overlap)

\* void* ptr = head + _NextOffset;
RacePtr ==
    /\ ~aborted
    /\ \E c \in DOMAIN thr.t :
         /\ thr.t[c].pc = "ptr"
         /\ RaceStep(c, [thr.t[c] EXCEPT !.pc = "load",
                                         !.ptr = (pool.Head + pool.NextOffset) % Word],
                     pool, FALSE, thr.held, thr.overlap)

\* The load of _NextOffset += alignedReq.
RaceLoad ==
    /\ ~aborted
    /\ \E c \in DOMAIN thr.t :
         /\ thr.t[c].pc = "load"
         /\ RaceStep(c, [thr.t[c] EXCEPT !.pc = "store", !.loaded = pool.NextOffset],
                     pool, FALSE, thr.held, thr.overlap)

\* The store of _NextOffset += alignedReq, and return MEMORY_SLICE(ptr, n).
RaceStore ==
    /\ ~aborted
    /\ \E c \in DOMAIN thr.t :
         /\ thr.t[c].pc = "store"
         /\ LET me == thr.t[c]
                out == ReturnSlice(debug, me.ptr, me.n,
                                   StoreOffset(pool, me.loaded, AlignedReq(me.n)))
            IN  RaceStep(c, IdleCaller(out.slice), out.pool, out.aborted,
                         thr.held \cup {out.slice},
                         thr.overlap
                             \/ \E h \in thr.held : SlicesOverlap(h, out.slice))

\* Reset() while no caller is inside TakeSlice: the generation ends.
RaceReset ==
    /\ ~aborted
    /\ \A c \in DOMAIN thr.t : thr.t[c].pc = "idle"
    /\ pool' = PoolReset(pool)
    /\ thr' = Race([c \in DOMAIN thr.t |-> IdleCaller(NullSlice)], {}, FALSE)
    /\ UNCHANGED <<debug, aborted, call, ret, run, slice, peak, mem, mgr>>

NextRace ==
    \/ RaceCheck
    \/ RacePtr
    \/ RaceLoad
    \/ RaceStore
    \/ RaceReset

SpecRace == InitRace /\ [][NextRace]_vars


\* ------------------------------------------------- generations of one pool
\* One pool with the bytes of its block: allocations, one-byte writes through
\* the slice last returned, and Reset.
GenHeads == {4096, 4104}
GenSizes == {8, 16, 24}
GenAlignments == {8, 16}
GenValues == {1, 2}

\* bytes: the block, byte k of it being element k + 1 (0: as malloc left it);
\* last: the value last written to each byte (0: never written); first and
\* prevFirst: the first non-null slice of this and of the previous
\* generation; top: the largest value BytesUsed() has held.
Gen(bytes, last, first, prevFirst, top) ==
    [bytes |-> bytes, last |-> last, first |-> first, prevFirst |-> prevFirst,
     top |-> top]

InitGen ==
    /\ debug \in BOOLEAN
    /\ \E h \in GenHeads : pool = Pool(h, 16)
    /\ aborted = FALSE
    /\ call = Call("none", 0, 0, pool, FreshRun)
    /\ ret = NoRet
    /\ run = FreshRun
    /\ slice = NullSlice
    /\ peak = 0
    /\ thr = NoThr
    /\ mgr = NoMgr
    /\ mem = Gen([k \in 1..16 |-> 0], [k \in 1..16 |-> 0], NullSlice, NullSlice, 0)

\* The effect of an allocation: a non-null slice returned becomes the slice
\* held, and the first of its generation if there was none.
ApplyGen(op, n, a, out) ==
    LET ok == ~out.aborted /\ ~IsNullPtr(out.slice)
    IN  /\ call' = Call(op, n, a, pool, FreshRun)
        /\ aborted' = out.aborted
        /\ pool' = out.pool
        /\ ret' = IF out.aborted THEN NoRet
                  ELSE Ret(out.slice.Head, out.slice.SizeInBytes, FALSE)
        /\ slice' = IF ok THEN out.slice ELSE slice
        /\ mem' = [mem EXCEPT !.first = IF ok /\ mem.first = NullSlice
                                        THEN out.slice ELSE mem.first,
                              !.top = Max(mem.top, BytesUsed(out.pool))]
        /\ UNCHANGED <<debug, run, peak, mgr, thr>>

GenTakeSlice ==
    /\ ~aborted
    /\ \E n \in GenSizes :
         ApplyGen("TakeSlice", n, 0, PoolTakeSlice(debug, pool, n))

GenTakeAlignedSlice ==
    /\ ~aborted
    /\ \E a \in GenAlignments :
         ApplyGen("TakeAlignedSlice", 8, a, PoolTakeAlignedSlice(debug, pool, 8, a))

\* Write<uint8_t>(v, 0) through the slice held, which slices of an earlier
\* generation included: the block is not freed by Reset.
GenWrite ==
    /\ ~aborted
    /\ ~IsNullPtr(slice)
    /\ \E v \in GenValues :
         LET at == slice.Head - pool.Head
         IN  /\ call' = Call("Write", v, 0, pool, FreshRun)
             /\ mem' = [mem EXCEPT !.bytes = MemCpy(mem.bytes, at, <<v>>, 0, 1),
                                    !.last = [mem.last EXCEPT ![at + 1] = v]]
    /\ UNCHANGED <<debug, pool, aborted, ret, run, slice, peak, mgr, thr>>

GenReset ==
    /\ ~aborted
    /\ call' = Call("Reset", 0, 0, pool, FreshRun)
    /\ pool' = PoolReset(pool)
    /\ ret' = NoRet
    /\ mem' = [mem EXCEPT !.bytes = BlockAfterReset(mem.bytes),
                          !.prevFirst = mem.first,
                          !.first = NullSlice]
    /\ UNCHANGED <<debug, aborted, run, slice, peak, mgr, thr>>

NextGen ==
    \/ GenTakeSlice
    \/ GenTakeAlignedSlice
    \/ GenWrite
    \/ GenReset

SpecGen == InitGen /\ [][NextGen]_vars

\* ------------------------------------------------------------------ claims
\* The pool before the last call, and the request in mathematical terms.
Before == call.before
RawAddress == Before.Head + Before.NextOffset
MathPadding == RoundUp(RawAddress, call.a) - RawAddress
MathTotalAdvance == RoundUp(MathPadding + call.n, 8)
Succeeded == ~aborted /\ ~IsNullPtr(ret)
GaveNullSlice == ~aborted /\ IsNullPtr(ret)

\* C1: TakeSlice(n), n > 0, returns a null slice when BytesUsed() +
\* roundUp(n, 8) > Size(); otherwise it returns the slice (head + BytesUsed()
\* before the call, n) and advances BytesUsed() by exactly roundUp(n, 8).
C1_TakeSliceContract ==
    call.op = "TakeSlice" =>
        IF Before.NextOffset + RoundUp(call.n, 8) > Size(Before)
        THEN GaveNullSlice
        ELSE /\ Succeeded
             /\ ret.Head = Before.Head + Before.NextOffset
             /\ ret.SizeInBytes = call.n
             /\ BytesUsed(pool) = BytesUsed(Before) + RoundUp(call.n, 8)

\* C2: whenever TakeSlice or TakeAlignedSlice returns a null slice, BytesUsed(),
\* GetMaxBytesUsed() and Size() are what they were before the call.
C2_NullLeavesPoolUnchanged ==
    (call.op \in {"TakeSlice", "TakeAlignedSlice"} /\ GaveNullSlice) =>
        /\ BytesUsed(pool) = BytesUsed(Before)
        /\ GetMaxBytesUsed(pool) = GetMaxBytesUsed(Before)
        /\ Size(pool) = Size(Before)

\* C2 witness: a TakeAlignedSlice that returned the null slice on a pool that
\* already held allocations and a high-water mark.
C2_Witness ==
    /\ call.op = "TakeAlignedSlice"
    /\ GaveNullSlice
    /\ BytesUsed(Before) > 0
    /\ GetMaxBytesUsed(Before) > 0

\* C3: 0 <= BytesUsed() <= Size() in every state reached through TakeSlice,
\* TakeAlignedSlice, Take, TakeArray and Reset calls that meet their
\* preconditions.
C3_CursorWithinCapacity ==
    0 <= BytesUsed(pool) /\ BytesUsed(pool) <= Size(pool)

\* C3 witness: an allocation on a pool already in use filled it exactly.
C3_Witness ==
    /\ call.op \in {"TakeSlice", "TakeArray"}
    /\ Succeeded
    /\ BytesUsed(pool) = Size(pool)
    /\ BytesUsed(Before) > 0

\* C4: BytesUsed() is a multiple of 8 in every reachable state, and every
\* slice TakeSlice returns starts at a multiple of 8 from the block head.
C4_CursorMultipleOf8 ==
    /\ BytesUsed(pool) % 8 = 0
    /\ (call.op = "TakeSlice" /\ Succeeded) => (ret.Head - pool.Head) % 8 = 0

\* C4 witness: a TakeAlignedSlice that skipped odd padding and served a size
\* that is no multiple of 8.
C4_Witness ==
    /\ call.op = "TakeAlignedSlice"
    /\ Succeeded
    /\ (ret.Head - RawAddress) % 2 = 1
    /\ call.n % 8 # 0
    /\ BytesUsed(pool) > BytesUsed(Before)

\* C5: TakeSlice calls of sizes s_1..s_k against an empty pool of capacity C
\* all succeed while the running sum of roundUp(s_i, 8) stays <= C, with
\* BytesUsed() equal to that sum, and the first call whose sum would exceed C
\* fails.
C5_SequentialTakeSlice ==
    (call.op = "TakeSlice" /\ call.run.valid) =>
        LET sum == call.run.sum + RoundUp(call.n, 8)
        IN  IF sum <= Size(Before)
            THEN Succeeded /\ BytesUsed(pool) = sum
            ELSE aborted \/ IsNullPtr(ret)

\* C6: TakeAlignedSlice(n, a) returns a null slice when cursor + totalAdvance >
\* capacity, with padding the distance to the next multiple of a and
\* totalAdvance = roundUp(padding + n, 8); otherwise it returns the slice
\* (head + cursor + padding, n) and advances the cursor by totalAdvance.
C6_TakeAlignedSliceContract ==
    call.op = "TakeAlignedSlice" =>
        IF Before.NextOffset + MathTotalAdvance > Size(Before)
        THEN GaveNullSlice
        ELSE /\ Succeeded
             /\ ret.Head = RawAddress + MathPadding
             /\ ret.SizeInBytes = call.n
             /\ BytesUsed(pool) = BytesUsed(Before) + MathTotalAdvance

\* C7: a non-null slice returned by TakeAlignedSlice(n, a), a in
\* {1, 2, 4, 8, 16, 64, 4096}, starts at a multiple of a.
C7_AlignedAddress ==
    (call.op = "TakeAlignedSlice" /\ Succeeded) => ret.Head % call.a = 0

\* C7 witness: a 64-byte aligned slice that needed padding.
C7_Witness ==
    /\ call.op = "TakeAlignedSlice"
    /\ Succeeded
    /\ call.a = 64
    /\ ret.Head > RawAddress

\* C8: Reset() sets BytesUsed() to 0 and GetMaxBytesUsed() to the maximum of
\* its previous value and BytesUsed() before the reset; GetMaxBytesUsed()
\* never decreases; after each Reset it is the largest BytesUsed() seen
\* immediately before any Reset so far.
C8_ResetHighWaterMark ==
    /\ GetMaxBytesUsed(pool) >= GetMaxBytesUsed(Before)
    /\ call.op = "Reset" =>
        /\ BytesUsed(pool) = 0
        /\ GetMaxBytesUsed(pool) = Max(GetMaxBytesUsed(Before), BytesUsed(Before))
        /\ GetMaxBytesUsed(pool) = peak

\* C8 witness: a Reset of a generation that stayed below the high-water mark.
C8_Witness ==
    /\ call.op = "Reset"
    /\ BytesUsed(Before) > 0
    /\ BytesUsed(Before) < GetMaxBytesUsed(Before)

\* C9: Owns(ptr) is true exactly when head <= ptr < head + BytesUsed(): false
\* below head, at or above head + BytesUsed() (the unused capacity included),
\* and false for every address once Reset() has returned the cursor to 0.
C9_OwnsLiveRegion ==
    /\ call.op = "Owns" =>
         (ret.flag <=> (pool.Head <= call.a /\ call.a < pool.Head + BytesUsed(pool)))
    /\ \A ptr \in ProbeAddrs(pool) :
         PoolOwns(pool, ptr) <=> (pool.Head <= ptr /\ ptr < pool.Head + BytesUsed(pool))
    /\ BytesUsed(pool) = 0 => \A ptr \in ProbeAddrs(pool) : ~PoolOwns(pool, ptr)

\* C9 witness: after allocations and a Reset, Owns answers false for the
\* block head, which was handed out before the Reset.
C9_Witness ==
    /\ call.op = "Owns"
    /\ call.a = pool.Head
    /\ ret.flag = FALSE
    /\ BytesUsed(pool) = 0
    /\ GetMaxBytesUsed(pool) > 0

\* C10: with insufficient room TakeSlice and TakeAlignedSlice, and Subslice on
\* an out-of-bounds request, complete normally and return a null slice; no
\* assertion fails on that path, in the debug build as in the release build.
\* Stated for the requests whose arithmetic stays below Word, so that only
\* the exhaustion path decides it.
C10_ExhaustionNeverAborts ==
    /\ (call.op = "TakeSlice"
        /\ Before.NextOffset + RoundUp(call.n, 8) > Size(Before)
        /\ Before.NextOffset + RoundUp(call.n, 8) < Word) => GaveNullSlice
    /\ (call.op = "TakeAlignedSlice"
        /\ Before.NextOffset + MathTotalAdvance > Size(Before)
        /\ Before.NextOffset + MathTotalAdvance < Word) => GaveNullSlice
    /\ (call.op = "Subslice"
        /\ call.a + call.n > slice.SizeInBytes
        /\ call.a + call.n < Word) => GaveNullSlice

\* C11: Take<T>() behaves as TakeSlice(sizeof(T)): nullptr and an unchanged
\* cursor when the request does not fit, otherwise the address head + cursor
\* before the call and a cursor advanced by roundUp(sizeof(T), 8).  On a
\* 64-byte pool with the cursor at 24 (three 4-byte takes), a Take of a
\* 48-byte type returns nullptr and leaves the cursor at 24.
C11_TakeContract ==
    /\ call.op = "Take" =>
         IF Before.NextOffset + RoundUp(call.n, 8) > Size(Before)
         THEN GaveNullSlice /\ BytesUsed(pool) = BytesUsed(Before)
         ELSE /\ Succeeded
              /\ ret.Head = Before.Head + Before.NextOffset
              /\ BytesUsed(pool) = BytesUsed(Before) + RoundUp(call.n, 8)
    /\ (call.op = "Take" /\ call.n = 48 /\ Size(Before) = 64 /\ BytesUsed(Before) = 24) =>
         GaveNullSlice /\ BytesUsed(pool) = 24

\* C12: TakeArray<T>(count) returns nullptr and changes nothing when count is
\* 0; otherwise it has exactly the effect of TakeSlice(sizeof(T) * count): the
\* null result and an unchanged pool when the rounded request does not fit,
\* else the address head + BytesUsed() and a cursor advanced by the rounded
\* request.
C12_TakeArrayContract ==
    call.op = "TakeArray" =>
        IF call.a = 0
        THEN GaveNullSlice /\ pool = Before
        ELSE LET request == call.n * call.a
             IN  IF Before.NextOffset + RoundUp(request, 8) > Size(Before)
                 THEN GaveNullSlice /\ pool = Before
                 ELSE /\ Succeeded
                      /\ ret.Head = Before.Head + Before.NextOffset
                      /\ BytesUsed(pool) = BytesUsed(Before) + RoundUp(request, 8)

\* C13: for a non-null parent of size S and every offset and size, Subslice
\* returns a null slice when offset + size exceeds S, and otherwise a non-null
\* view with head = parent head + offset and the requested size whose byte
\* range lies inside [head, head + S).  a is the offset, n the size.
C13_SubsliceContract ==
    call.op = "Subslice" =>
        IF call.a + call.n > slice.SizeInBytes
        THEN GaveNullSlice
        ELSE /\ Succeeded
             /\ ret.Head = slice.Head + call.a
             /\ ret.SizeInBytes = call.n
             /\ slice.Head <= ret.Head
             /\ ret.Head + ret.SizeInBytes <= slice.Head + slice.SizeInBytes

\* C14: for non-null slices and every srcOffset, dstOffset and size,
\* CopyFrom returns true and copies exactly src[srcOffset, srcOffset + size)
\* to dst[dstOffset, dstOffset + size) when both ranges are within their
\* slices; otherwise it returns false and no byte is modified.  It never reads
\* outside src or writes outside dst.  n is the size, a the dstOffset.
C14_CopyFromContract ==
    call.op = "CopyFrom" =>
        /\ ~aborted
        /\ ~mem.oob
        /\ IF /\ mem.srcOffset + call.n <= Len(mem.other)
              /\ call.a + call.n <= Len(mem.prev)
           THEN /\ ret.flag
                /\ \A k \in 1..Len(mem.prev) :
                     mem.bytes[k] = IF call.a < k /\ k <= call.a + call.n
                                    THEN mem.other[mem.srcOffset + (k - call.a)]
                                    ELSE mem.prev[k]
           ELSE ~ret.flag /\ mem.bytes = mem.prev

\* C15: Write<T>(value, offset) on a non-null slice of size S returns true
\* exactly when offset + sizeof(T) <= S and false otherwise, through its
\* return value and not an assertion; on false no byte of the slice changes;
\* on true only bytes [offset, offset + sizeof(T)) change and a following
\* Read<T>(out, offset) yields the written value.  n is sizeof(T), a the
\* offset.
C15_WriteContract ==
    call.op = "Write" =>
        /\ ~aborted
        /\ ret.flag <=> (call.a + call.n <= Len(mem.prev))
        /\ ~ret.flag => mem.bytes = mem.prev
        /\ ret.flag =>
             /\ \A k \in 1..Len(mem.prev) :
                  (k <= call.a \/ k > call.a + call.n) => mem.bytes[k] = mem.prev[k]
             /\ \A o \in SliceRead(debug, mem.bytes, call.n, call.a, ByteVals) :
                  ~o.aborted /\ ~o.oob /\ o.out = mem.value

\* C16: for non-null slices a and b, a.Equals(b) is true if and only if a and
\* b have the same size and identical bytes at every index; slices of
\* different sizes are never equal, even when the shorter is a prefix of the
\* longer; Equals is reflexive and symmetric.
C16_EqualsContract ==
    /\ call.op = "Equals" =>
         (ret.flag <=> /\ Len(mem.bytes) = Len(mem.other)
                       /\ \A k \in 1..Len(mem.bytes) : mem.bytes[k] = mem.other[k])
    /\ SliceEquals(mem.bytes, mem.bytes)
    /\ SliceEquals(mem.other, mem.other)
    /\ SliceEquals(mem.bytes, mem.other) <=> SliceEquals(mem.other, mem.bytes)

\* C16 witness: Equals answered false for a slice that is a byte-for-byte
\* prefix of the longer slice it was compared with, after the bytes were
\* copied in.
C16_Witness ==
    /\ call.op = "Equals"
    /\ ~ret.flag
    /\ Len(mem.bytes) < Len(mem.other)
    /\ \A k \in 1..Len(mem.bytes) : mem.bytes[k] = mem.other[k]

\* Bit k of a byte, and the byte with bit k forced to v, as numbers.
BitOfByte(b, k) == (b \div (2 ^ k)) % 2
WithBit(b, k, v) == b - BitOfByte(b, k) * (2 ^ k) + v * (2 ^ k)

\* The last call changed nothing but bit i, which it left at v.
OnlyBitChanged(i, v) ==
    /\ Len(mem.bytes) = Len(mem.prev)
    /\ \A k \in 1..Len(mem.prev) :
         mem.bytes[k] = IF k = (i \div 8) + 1
                        THEN WithBit(mem.prev[k], i % 8, v)
                        ELSE mem.prev[k]

\* The last call was a bit operation on an index inside the slice.
BitCallInRange == call.a < 8 * Len(mem.prev)

\* C17: for every non-null slice, initial content and bit index i in
\* [0, 8 * size): after SetBit(i), GetBit(i) and IsBitSet(i) are true; after
\* ClearBit(i) they are false; two consecutive ToggleBit(i) calls restore the
\* original content; bit i addresses byte i / 8 with mask 1 << (i % 8).
C17_BitRoundTrip ==
    /\ (call.op \in {"SetBit", "ClearBit", "ToggleBit", "GetBit", "IsBitSet"}
        /\ BitCallInRange) => ~aborted /\ ~mem.oob
    /\ (call.op = "SetBit" /\ BitCallInRange) =>
         /\ OnlyBitChanged(call.a, 1)
         /\ \A g \in SliceGetBit(debug, mem.bytes, call.a, ByteVals) :
              ~g.aborted /\ g.flag
    /\ (call.op = "ClearBit" /\ BitCallInRange) =>
         /\ OnlyBitChanged(call.a, 0)
         /\ \A g \in SliceGetBit(debug, mem.bytes, call.a, ByteVals) :
              ~g.aborted /\ ~g.flag
    /\ (call.op = "ToggleBit" /\ BitCallInRange) =>
         /\ OnlyBitChanged(call.a,
                           1 - BitOfByte(mem.prev[(call.a \div 8) + 1], call.a % 8))
         /\ (mem.last.op = "ToggleBit" /\ mem.last.i = call.a) =>
              mem.bytes = mem.last.bytes
    /\ (call.op \in {"GetBit", "IsBitSet"} /\ BitCallInRange) =>
         /\ mem.bytes = mem.prev
         /\ ret.flag <=>
              BitOfByte(mem.bytes[(call.a \div 8) + 1], call.a % 8) = 1
    /\ \A i \in 0..(8 * Len(mem.bytes) - 1) :
         /\ \A s \in SliceSetBit(debug, mem.bytes, i, ByteVals) :
              \A g \in SliceGetBit(debug, s.bytes, i, ByteVals) :
                  ~s.aborted /\ ~g.aborted /\ g.flag
         /\ \A c \in SliceClearBit(debug, mem.bytes, i, ByteVals) :
              \A g \in SliceGetBit(debug, c.bytes, i, ByteVals) :
                  ~c.aborted /\ ~g.aborted /\ ~g.flag
         /\ \A t \in SliceToggleBit(debug, mem.bytes, i, ByteVals) :
              \A u \in SliceToggleBit(debug, t.bytes, i, ByteVals) :
                  ~t.aborted /\ ~u.aborted /\ u.bytes = mem.bytes

\* C17 witness: the second of two consecutive ToggleBit(9) calls on a slice
\* that started from the non-zero pattern put the second byte back to what it
\* was.
C17_Witness ==
    /\ call.op = "ToggleBit"
    /\ call.a = 9
    /\ mem.last.op = "ToggleBit"
    /\ mem.last.i = 9
    /\ ~aborted
    /\ mem.bytes = mem.last.bytes
    /\ mem.bytes # mem.prev
    /\ mem.bytes[2] = 90

\* The slot a CreatePool or DeletePool step is about to act on is in range
\* and empty.
EmptySlotBefore == call'.a < DynamicCount /\ ~PoolExists(mgr.m, call'.a)

\* A CreatePool step succeeded: true, the pool exists with capacity size and
\* cursor 0.
CreatedFresh ==
    /\ ~aborted'
    /\ ret'.flag
    /\ PoolExists(mgr'.m, call'.a)
    /\ Size(mgr'.m.Pools[call'.a]) = call'.n
    /\ BytesUsed(mgr'.m.Pools[call'.a]) = 0

\* C18: CreatePool(i, size) on an empty in-range slot returns true and makes
\* PoolExists(i) true with a pool of capacity size and cursor 0; on an
\* occupied slot or with an out-of-range index it returns false (a boolean
\* result, not an abort) and leaves every slot, the existing pool's capacity,
\* cursor and high-water mark, and ActivePoolCount() unchanged.
C18_CreatePoolContract ==
    [][call'.op = "CreatePool" =>
         IF EmptySlotBefore
         THEN CreatedFresh
         ELSE ~aborted' /\ ~ret'.flag /\ mgr'.m = mgr.m]_vars

\* C18 as amended: as C18, but on an occupied slot or with an out-of-range
\* index CreatePool returns false in a build without assertions and fails an
\* assertion in a build with assertions; in both it leaves every slot, the
\* existing pool's capacity, cursor and high-water mark, and
\* ActivePoolCount() unchanged.
C18_CreatePoolAmended ==
    [][call'.op = "CreatePool" =>
         IF EmptySlotBefore
         THEN CreatedFresh
         ELSE /\ mgr'.m = mgr.m
              /\ IF debug THEN aborted' ELSE ~aborted' /\ ~ret'.flag]_vars

\* C18 witness: in a build without assertions CreatePool returned false for a
\* slot holding a pool that had been used and reset, and the pool is still
\* there.
C18_Witness ==
    /\ call.op = "CreatePool"
    /\ ~aborted
    /\ ~ret.flag
    /\ PoolExists(mgr.m, call.a)
    /\ Size(mgr.m.Pools[call.a]) # call.n
    /\ BytesUsed(mgr.m.Pools[call.a]) > 0
    /\ GetMaxBytesUsed(mgr.m.Pools[call.a]) > 0

\* C19: after any sequence of CreatePool, DeletePool, SwapPools, ResetPool
\* and ResetAll calls, ActivePoolCount() equals the number of indices i with
\* PoolExists(i), which equals the successful CreatePool calls minus the
\* DeletePool calls that removed a pool, and 0 <= ActivePoolCount() <=
\* MaxPoolCount().
C19_ActivePoolCount ==
    /\ ActivePoolCount(mgr.m) = Cardinality({i \in 0..DynamicCount : PoolExists(mgr.m, i)})
    /\ ActivePoolCount(mgr.m) = mgr.net
    /\ 0 <= ActivePoolCount(mgr.m)
    /\ ActivePoolCount(mgr.m) <= MaxPoolCount

\* C19 witness: a DeletePool removed a pool that SwapPools had moved to
\* another slot, leaving one pool fewer than the manager can hold.
C19_Witness ==
    /\ call.op = "DeletePool"
    /\ mgr.removed # NullPool
    /\ mgr.removed.Head # 4096 + 64 * call.a
    /\ ActivePoolCount(mgr.m) = MaxPoolCount - 1

\* C20: DeletePool(i) on an empty in-range slot changes nothing; on an
\* occupied slot it makes PoolExists(i) false, decrements ActivePoolCount()
\* by exactly one and leaves every other slot and its pool state unchanged,
\* so that a later CreatePool(i, size) succeeds and yields a pool with cursor
\* 0 and high-water mark 0.
C20_DeletePoolContract ==
    [][/\ call'.op = "DeletePool" =>
            /\ ~aborted'
            /\ IF EmptySlotBefore
               THEN mgr'.m = mgr.m
               ELSE /\ ~PoolExists(mgr'.m, call'.a)
                    /\ ActivePoolCount(mgr'.m) = ActivePoolCount(mgr.m) - 1
                    /\ \A j \in Slots \ {call'.a} :
                         mgr'.m.Pools[j] = mgr.m.Pools[j]
       /\ (call.op = "DeletePool" /\ call'.op = "CreatePool" /\ call'.a = call.a) =>
            /\ CreatedFresh
            /\ GetMaxBytesUsed(mgr'.m.Pools[call'.a]) = 0]_vars

\* C20 witness: CreatePool succeeded on a slot right after DeletePool removed
\* from it a pool with a non-zero cursor and high-water mark, and the new
\* pool starts at 0 and 0.
C20_Witness ==
    /\ call.op = "CreatePool"
    /\ ret.flag
    /\ mgr.removed # NullPool
    /\ BytesUsed(mgr.removed) > 0
    /\ GetMaxBytesUsed(mgr.removed) > 0
    /\ BytesUsed(mgr.m.Pools[call.a]) = 0
    /\ GetMaxBytesUsed(mgr.m.Pools[call.a]) = 0

\* C21: a fixed manager constructed with sizes (s_0, ..., s_{N-1}) has
\* GetPool(i).Size() = s_i for every i, each pool starting with cursor 0;
\* after any sequence of allocations in the pools, ResetAll() sets every
\* pool's BytesUsed() to 0 and leaves every pool's Size() unchanged.
C21_FixedManagerContract ==
    /\ \A i \in FixedSlots : Size(mgr.f[i]) = mgr.sizes[i]
    /\ call.op = "none" => \A i \in FixedSlots : BytesUsed(mgr.f[i]) = 0
    /\ call.op = "FixedResetAll" => \A i \in FixedSlots : BytesUsed(mgr.f[i]) = 0

\* C21 witness: a ResetAll on a manager built with two different sizes whose
\* pools all held allocations.
C21_Witness ==
    /\ call.op = "FixedResetAll"
    /\ \A i \in FixedSlots : GetMaxBytesUsed(mgr.f[i]) > 0 /\ BytesUsed(mgr.f[i]) = 0
    /\ \E i \in FixedSlots, j \in FixedSlots : Size(mgr.f[i]) # Size(mgr.f[j])

\* Composite operations addressed to the fixed and to the dynamic index
\* space.
FixedOps == {"GetFixedPoolTakeSlice", "ResetFixedPool", "ResetAllFixed"}
DynamicOps ==
    {"CreateDynamicPool", "DeleteDynamicPool", "GetDynamicPoolTakeSlice",
     "SwapDynamicPools", "ResetDynamicPool", "ResetAllDynamic"}

\* C22: in the composite manager an operation addressed to a fixed index
\* changes no dynamic slot and one addressed to a dynamic index changes no
\* fixed pool; ResetAll() sets the cursor of every fixed pool and of every
\* existing dynamic pool to 0, skips empty dynamic slots, and creates or
\* deletes no pool.
C22_CompositeIndependence ==
    [][/\ call'.op \in FixedOps => mgr'.c.m = mgr.c.m
       /\ call'.op \in DynamicOps => mgr'.c.f = mgr.c.f
       /\ call'.op = "ResetAll" =>
            /\ ~aborted'
            /\ \A i \in FixedSlots :
                 /\ BytesUsed(mgr'.c.f[i]) = 0
                 /\ Size(mgr'.c.f[i]) = Size(mgr.c.f[i])
            /\ \A i \in Slots :
                 /\ PoolExists(mgr'.c.m, i) <=> PoolExists(mgr.c.m, i)
                 /\ PoolExists(mgr.c.m, i) =>
                      /\ BytesUsed(mgr'.c.m.Pools[i]) = 0
                      /\ Size(mgr'.c.m.Pools[i]) = Size(mgr.c.m.Pools[i])
                 /\ ~PoolExists(mgr.c.m, i) => mgr'.c.m.Pools[i] = NullPool
            /\ ActivePoolCount(mgr'.c.m) = ActivePoolCount(mgr.c.m)]_vars

\* C22 witness: a ResetAll that emptied a used fixed pool and a used dynamic
\* pool while another dynamic slot was empty.
C22_Witness ==
    /\ call.op = "ResetAll"
    /\ \E i \in FixedSlots :
         GetMaxBytesUsed(mgr.c.f[i]) > 0 /\ BytesUsed(mgr.c.f[i]) = 0
    /\ \E i \in Slots :
         /\ PoolExists(mgr.c.m, i)
         /\ GetMaxBytesUsed(mgr.c.m.Pools[i]) > 0
         /\ BytesUsed(mgr.c.m.Pools[i]) = 0
    /\ \E i \in Slots : ~PoolExists(mgr.c.m, i)

\* The heads of the blocks the manager's slots point to.
SlotHeads(m) == {m.Pools[i].Head : i \in {j \in Slots : m.Pools[j] # NullPool}}

\* C23: every backing block is released exactly once: over any sequence of
\* CreatePool, DeletePool and SwapPools (swaps with empty slots and with
\* indexA = indexB included) no block is freed twice, the live blocks are
\* exactly those the slots point to, no two slots point to one block, and the
\* destructor leaves no block live.
C23_ReleasedExactlyOnce ==
    /\ ~mem.bad
    /\ ~mem.destroyed =>
         /\ mem.live = SlotHeads(mgr.m)
         /\ \A i \in Slots, j \in Slots :
              (i # j /\ PoolExists(mgr.m, i) /\ PoolExists(mgr.m, j))
                  => mgr.m.Pools[i].Head # mgr.m.Pools[j].Head
    /\ mem.destroyed => mem.live = {}

\* C23 witness: a manager destroyed while one slot held a pool and another
\* was empty; the pool's block was freed by the destructor.
C23_Witness ==
    /\ mem.destroyed
    /\ mem.live = {}
    /\ \E i \in Slots : PoolExists(mgr.m, i)
    /\ \E i \in Slots : ~PoolExists(mgr.m, i)

\* C24: a failed allocation is retryable after Reset: from any reachable pool
\* state, a TakeSlice(n), n > 0, that follows a Reset() succeeds whenever
\* roundUp(n, 8) <= Size(), and returns the slice of n bytes at the block
\* head.
C24_RetryAfterReset ==
    [][(/\ call.op = "Reset"
        /\ call'.op = "TakeSlice"
        /\ RoundUp(call'.n, 8) <= Size(pool))
       => /\ ~aborted'
          /\ ret'.Head # 0
          /\ ret'.Head = pool.Head
          /\ ret'.SizeInBytes = call'.n
          /\ BytesUsed(pool') = RoundUp(call'.n, 8)]_vars

\* C24 witness: a pool that had been filled to capacity was reset and then
\* gave its whole capacity again from the block head.
C24_Witness ==
    /\ call.op = "TakeSlice"
    /\ Succeeded
    /\ call.n = Size(pool)
    /\ BytesUsed(Before) = 0
    /\ GetMaxBytesUsed(Before) = Size(pool)
    /\ ret.Head = pool.Head

C26_SwapPoolsContract ==
    [][call'.op = "SwapPools" =>
        LET a == call'.a
            b == call'.n
        IN  /\ ~aborted'
            /\ mgr'.m.Pools[a] = mgr.m.Pools[b]
            /\ mgr'.m.Pools[b] = mgr.m.Pools[a]
            /\ PoolExists(mgr'.m, a) <=> PoolExists(mgr.m, b)
            /\ PoolExists(mgr'.m, b) <=> PoolExists(mgr.m, a)
            /\ \A i \in Slots \ {a, b} : mgr'.m.Pools[i] = mgr.m.Pools[i]
            /\ ActivePoolCount(mgr'.m) = ActivePoolCount(mgr.m)
            /\ a = b => mgr'.m = mgr.m
            /\ MgrSwapPools(mgr'.m, a, b) = mgr.m
            /\ mem' = mem]_vars

\* C26 witness: a swap of two different slots after which the first is empty
\* and the second holds a pool that was used and reset before.
C26_Witness ==
    /\ call.op = "SwapPools"
    /\ call.a # call.n
    /\ ~PoolExists(mgr.m, call.a)
    /\ PoolExists(mgr.m, call.n)
    /\ GetMaxBytesUsed(mgr.m.Pools[call.n]) > 0
    /\ ActivePoolCount(mgr.m) = 1

\* The bytes a slice of n bytes at address head reads, as far as they lie in
\* the block.
BytesAt(bytes, head, n) ==
    [k \in 1..Min(n, Len(bytes) - (head - pool.Head)) |-> bytes[(head - pool.Head) + k]]

\* A Reset leaves capacity, head and every byte of the block unchanged.
ResetKeepsBlock ==
    call'.op = "Reset" =>
        /\ pool'.Head = pool.Head
        /\ Size(pool') = Size(pool)
        /\ mem'.bytes = mem.bytes

\* A TakeSlice returns the first slice of a generation that follows another
\* generation in which a slice was returned.
FirstTakeSliceAfterReset ==
    /\ call'.op = "TakeSlice"
    /\ ~aborted' /\ ~IsNullPtr(ret')
    /\ mem.first = NullSlice
    /\ mem.prevFirst # NullSlice

\* The slice returned reads, in every byte that was written, the value last
\* written to it.
ReadsLastWritten ==
    \A k \in DOMAIN BytesAt(mem'.bytes, ret'.Head, ret'.SizeInBytes) :
        LET at == (ret'.Head - pool.Head) + k
        IN  mem.last[at] # 0
              => BytesAt(mem'.bytes, ret'.Head, ret'.SizeInBytes)[k] = mem.last[at]

\* C27 as stated: Reset() changes only the cursor and the high-water mark,
\* so the first TakeSlice after a Reset returns the address of the first
\* slice of the previous generation and reads the bytes last written there.
C27_ResetKeepsBlock ==
    [][/\ ResetKeepsBlock
       /\ FirstTakeSliceAfterReset
            => /\ ret'.Head = mem.prevFirst.Head
               /\ ReadsLastWritten]_vars

\* C27 amended: Reset() changes only the cursor and the high-water mark, so
\* the first slice TakeSlice returns after a Reset is at the block head,
\* which is the address of the previous generation's first slice when that
\* slice began at the block head (it does unless TakeAlignedSlice returned
\* it after padding), and reads the bytes last written there.
C27_ResetKeepsBlockAmended ==
    [][/\ ResetKeepsBlock
       /\ FirstTakeSliceAfterReset
            => /\ BytesUsed(pool) = 0
               /\ ret'.Head = pool.Head
               /\ mem.prevFirst.Head = pool.Head => ret'.Head = mem.prevFirst.Head
               /\ mem.prevFirst.Head >= pool.Head
               /\ ReadsLastWritten]_vars

\* C27 witness: the first TakeSlice after a Reset returned the address of
\* the previous generation's first slice, whose first byte was
\* written last with the value 2.
C27_Witness ==
    /\ call.op = "TakeSlice"
    /\ Succeeded
    /\ BytesUsed(Before) = 0
    /\ GetMaxBytesUsed(Before) > 0
    /\ mem.prevFirst # NullSlice
    /\ ret.Head = mem.prevFirst.Head
    /\ mem.first.Head = ret.Head
    /\ mem.bytes[1] = 2
    /\ mem.last[1] = 2

\* C28: GetMaxBytesUsed() is the maximum allocation over the pool's
\* lifetime: in every reachable state, between an allocation and the next
\* Reset included, GetMaxBytesUsed() >= BytesUsed() and GetMaxBytesUsed() is
\* the largest value BytesUsed() has held so far.
C28_MaxBytesUsedOverLifetime ==
    /\ GetMaxBytesUsed(pool) >= BytesUsed(pool)
    /\ GetMaxBytesUsed(pool) = mem.top

\* The number of dynamic slots holding a pool.
ExistingDynamicPools(m) == Cardinality({i \in Slots : PoolExists(m, i)})

\* C29: every composite operation is forwarded to the matching sub-manager
\* operation with the same result and effect; in particular, after any
\* sequence of CreateDynamicPool, DeleteDynamicPool and SwapDynamicPools,
\* GetActiveDynamicCount() returns the dynamic manager's ActivePoolCount(),
\* the number of existing dynamic pools.
C29_CompositeForwarding ==
    call.op = "GetActiveDynamicCount" =>
        /\ ~aborted
        /\ mgr.result.defined
        /\ mgr.result.value = ActivePoolCount(mgr.c.m)
        /\ mgr.result.value = ExistingDynamicPools(mgr.c.m)

\* C30: within one generation every non-null slice returned by TakeSlice or
\* TakeAlignedSlice with n > 0 lies inside [head + cursor before the call,
\* head + cursor after the call), the cursor never moving back within the
\* generation, so the slices are pairwise disjoint, and inside the live
\* region [head, head + BytesUsed()) and inside the block.
C30_SlicesDisjointInsideBlock ==
    (call.op \in {"TakeSlice", "TakeAlignedSlice"} /\ ~aborted) =>
        /\ BytesUsed(pool) >= BytesUsed(Before)
        /\ Succeeded =>
            /\ ret.Head >= Before.Head + BytesUsed(Before)
            /\ ret.Head + ret.SizeInBytes <= pool.Head + BytesUsed(pool)
            /\ BytesUsed(pool) <= Size(pool)

\* C31: with size_t a WordBits-bit unsigned integer, for every n in
\* 1..Word-1 and every pool state, a non-null slice returned by TakeSlice(n)
\* satisfies n <= Size() - BytesUsed() before the call, and so does not
\* extend past the end of the block: neither (n + 7) & ~7 nor the sum with
\* the cursor wraps into a success.
C31_TakeSliceNoOverflow ==
    (call.op = "TakeSlice" /\ Succeeded) =>
        /\ BytesUsed(Before) <= Size(Before)
        /\ call.n <= Size(Before) - BytesUsed(Before)
        /\ ret.Head + ret.SizeInBytes <= Before.Head + Size(Before)

\* C32: with size_t a WordBits-bit unsigned integer, for every element size
\* and every count > 0, when TakeArray<T>(count) returns non-null the pool
\* has reserved at least sizeof(T) * count bytes (the mathematical product)
\* for it, so the count elements it constructs lie inside the reserved
\* region and inside the block.
C32_TakeArrayReservesProduct ==
    (call.op = "TakeArray" /\ call.a > 0 /\ Succeeded) =>
        LET product == call.n * call.a
        IN  /\ BytesUsed(pool) >= BytesUsed(Before)
            /\ BytesUsed(pool) - BytesUsed(Before) >= product
            /\ ret.Head = Before.Head + BytesUsed(Before)
            /\ ret.Head + product <= pool.Head + BytesUsed(pool)
            /\ ret.Head + product <= pool.Head + Size(pool)

\* What TakeSlice(n) produces from the pool state before the last call.
TakeSliceInstead == PoolTakeSlice(debug, Before, call.n)

\* C33: when the block head is 8-byte aligned, TakeAlignedSlice(n, a) with a
\* in {1, 2, 4, 8} is equivalent to TakeSlice(n) from every pool state: the
\* padding is 0, and the two calls agree on success or failure, on the
\* address and size returned, and on the resulting cursor.
C33_AlignedUpTo8IsTakeSlice ==
    (/\ call.op = "TakeAlignedSlice"
     /\ call.a \in {1, 2, 4, 8}
     /\ Before.Head % 8 = 0)
    => /\ aborted = TakeSliceInstead.aborted
       /\ pool = TakeSliceInstead.pool
       /\ ~aborted =>
            /\ ret.Head = TakeSliceInstead.slice.Head
            /\ ret.SizeInBytes = TakeSliceInstead.slice.SizeInBytes
       /\ Succeeded => ret.Head = Before.Head + BytesUsed(Before)

\* C33 witness: a 4-byte aligned request of 12 bytes on an 8-aligned block
\* that already held an allocation succeeded, advancing the cursor by 16.
C33_Witness ==
    /\ call.op = "TakeAlignedSlice"
    /\ call.a = 4
    /\ call.n = 12
    /\ Before.Head % 8 = 0
    /\ BytesUsed(Before) > 0
    /\ Succeeded
    /\ BytesUsed(pool) = BytesUsed(Before) + 16

\* Two states of a pool with the same block: head and capacity.
SameBlock(p, q) == p.Head = q.Head /\ Size(p) = Size(q)

\* C34: pools held by a manager are isolated from each other: an allocation
\* in, or a ResetPool(i) of, the pool at index i changes the cursor and the
\* high-water mark of that pool only; every other pool's BytesUsed(),
\* GetMaxBytesUsed() and Size(), the set of existing dynamic slots and
\* ActivePoolCount() are unchanged.
C34_PoolsIsolated ==
    [][/\ call'.op \in {"GetFixedPoolTakeSlice", "ResetFixedPool"} =>
            /\ \A j \in FixedSlots \ {call'.a} : mgr'.c.f[j] = mgr.c.f[j]
            /\ SameBlock(mgr'.c.f[call'.a], mgr.c.f[call'.a])
            /\ mgr'.c.m = mgr.c.m
       /\ call'.op \in {"GetDynamicPoolTakeSlice", "ResetDynamicPool"} =>
            /\ \A j \in Slots \ {call'.a} : mgr'.c.m.Pools[j] = mgr.c.m.Pools[j]
            /\ SameBlock(mgr'.c.m.Pools[call'.a], mgr.c.m.Pools[call'.a])
            /\ \A j \in Slots : PoolExists(mgr'.c.m, j) <=> PoolExists(mgr.c.m, j)
            /\ ActivePoolCount(mgr'.c.m) = ActivePoolCount(mgr.c.m)
            /\ mgr'.c.f = mgr.c.f]_vars

\* C34 witness: a ResetDynamicPool emptied a used dynamic pool while another
\* dynamic pool and a fixed pool kept their allocations.
C34_Witness ==
    /\ call.op = "ResetDynamicPool"
    /\ ~aborted
    /\ PoolExists(mgr.c.m, call.a)
    /\ BytesUsed(mgr.c.m.Pools[call.a]) = 0
    /\ GetMaxBytesUsed(mgr.c.m.Pools[call.a]) > 0
    /\ \E j \in Slots \ {call.a} :
         PoolExists(mgr.c.m, j) /\ BytesUsed(mgr.c.m.Pools[j]) > 0
    /\ \E j \in FixedSlots : BytesUsed(mgr.c.f[j]) > 0

\* GetBit(j) answers the same on two contents of the slice.
SameBit(after, before, j) ==
    \A g \in SliceGetBit(debug, after, j, ByteVals),
       h \in SliceGetBit(debug, before, j, ByteVals) :
        ~g.aborted /\ ~h.aborted /\ ~g.oob /\ ~h.oob /\ (g.flag <=> h.flag)

\* C35: SetBit(i), ClearBit(i) and ToggleBit(i) with i in [0, 8 * size)
\* change at most the single bit i of the slice: for every bit index j in
\* [0, 8 * size) with j # i, GetBit(j) has the same value after the call as
\* before, and the slice's head and size are unchanged.
C35_BitFrame ==
    [][(/\ call'.op \in {"SetBit", "ClearBit", "ToggleBit"}
        /\ call'.a < 8 * Len(mem.bytes))
       => /\ ~aborted'
          /\ ~mem'.oob
          /\ slice' = slice
          /\ Len(mem'.bytes) = Len(mem.bytes)
          /\ \A j \in (0..(8 * Len(mem.bytes) - 1)) \ {call'.a} :
               SameBit(mem'.bytes, mem.bytes, j)]_vars

\* C35 witness: a ClearBit(3) that cleared a set bit of the first byte of a
\* two-byte slice whose other bits were not all zero.
C35_Witness ==
    /\ call.op = "ClearBit"
    /\ call.a = 3
    /\ ~aborted
    /\ Len(mem.bytes) = 2
    /\ BitOfByte(mem.prev[1], 3) = 1
    /\ BitOfByte(mem.bytes[1], 3) = 0
    /\ mem.bytes[1] > 0
    /\ mem.bytes[2] > 0
====
